---- MODULE Spec2Model ----
(***************************************************************************)
(* A model of skelly's core: the pagination engine                         *)
(* (rendering/mod.rs, Renderer::render_document and the block renderers)   *)
(* and the structural parser (parsing.rs).                                 *)
(*                                                                         *)
(* A canvas is not modelled pixel by pixel.  A row of a rendered block is  *)
(* identified by the block it belongs to and its y coordinate in that      *)
(* block's canvas; a page canvas is the sequence of the row ranges copied  *)
(* into it.  The x axis only appears where an x coordinate can leave the   *)
(* canvas (a panic of the image crate) or a u32 subtraction can underflow. *)
(***************************************************************************)
EXTENDS Integers, Sequences, FiniteSets, TLC

VARIABLES
    document,               \* the Document handed to render_document
    pc,                     \* position in render_document
    block_idx,              \* index of the block of the outer loop (1-based)
    rendered_block,         \* RenderedBlock of the current block
    breakpoint_idx,         \* index of the breakpoint of the inner loop (1-based)
    page_offset_y,
    current_page_canvas,
    finished_page_canvases,
    webpage_url,            \* Renderer.webpage_url: the base of the image urls
    images,                 \* Renderer.images: resolved url -> None | Some(image)
    tree,                   \* the syntax tree of the page being parsed (its root node)
    parse_pc,               \* position in parse_webpage
    parse_result,           \* what parse_webpage returned
    element,                \* the tbody element handed to table_body_handler
    bridge_pc,              \* position in the conversion of the element
    markdown,               \* what table_body_handler returned
    state,                  \* BrowserCore.state
    browser_pc,             \* position in navigate_to, render and do_render
    page_url,               \* the url the call of the BrowserCore was given
    requested,              \* history: the urls handed to fetch_image by this call
    calls,                  \* the number of calls of the BrowserCore so far
    user_input,             \* the channel read by Application::run (RemarkableApp: app_rx)
    input_internal,         \* the tokio channel of the web server
    response,               \* the last request of the web server and its answer
    relay_pc,               \* the relay thread: running, or stopped by a panic
    exit_requested,         \* the backend has sent RequestExit
    sent,                   \* the number of events and requests so far
    app_pc,                 \* position of Application::run
    current_page_idx,       \* Application.current_page_idx
    output,                 \* history: the frames sent for the event being handled
    overflow_checks,        \* the build: are the integer overflow checks compiled in
    settings,               \* the BlockRenderSettings of the call of render_block followed
    levels,                 \* the quotes and list items around the block of that call
    walk_pc,                \* position in that call
    content_width,          \* the available content width that call computed
    all_runs,               \* split_runs_into_pages: the layout runs it is given
    content_height,         \* its content_height
    run_idx,                \* position of its for loop in all_runs
    pages,                  \* its pages
    current_page,           \* its current_page
    layout_pc               \* position in split_runs_into_pages

\* the fields of the Renderer that Renderer::new sets and no step changes
rendererFields == <<webpage_url, images>>

renderVars == <<document, pc, block_idx, rendered_block, breakpoint_idx,
                page_offset_y, current_page_canvas, finished_page_canvases,
                rendererFields>>

parseVars == <<tree, parse_pc, parse_result>>

bridgeVars == <<element, bridge_pc, markdown>>

browserVars == <<state, browser_pc, page_url, requested, calls>>

appVars == <<user_input, input_internal, response, relay_pc, exit_requested, sent,
             app_pc, current_page_idx, output>>

\* the profile the program was built with; no step changes it
buildVars == <<overflow_checks>>

\* one path of calls of render_block down a Document
nestVars == <<settings, levels, walk_pc, content_width>>

\* a call of split_runs_into_pages
layoutVars == <<all_runs, content_height, run_idx, pages, current_page, layout_pc>>

vars == <<renderVars, parseVars, bridgeVars, browserVars, appVars, buildVars, nestVars,
          layoutVars>>

\* what the steps of render_document, and those of parse_webpage, leave alone
notRenderVars == <<parseVars, bridgeVars, browserVars, appVars, buildVars, nestVars, layoutVars>>

notParseVars == <<renderVars, bridgeVars, browserVars, appVars, buildVars, nestVars, layoutVars>>

notBridgeVars == <<renderVars, parseVars, browserVars, appVars, buildVars, nestVars, layoutVars>>

----------------------------------------------------------------------------
(* Bounds of the model *)

MaxBlocks == 2          \* top-level blocks of a document of simple blocks
MaxRuns == 3            \* layout runs the text shaper returns for one block
MaxChildren == 2        \* children of a container, rows of a table, cells of a row
MaxNodes == 2           \* top-level nodes of a syntax tree of simple nodes
MaxSpans == 2           \* inline nodes of a paragraph node
MaxCalls == 2           \* calls of navigate_to and render on one BrowserCore
MaxEvents == 3          \* events of the backend and requests of the web server
MaxDepth == 52          \* quotes and list items around a block
MaxPages == 2           \* pages of a page the RemarkableApp is sent to
MaxLayoutRuns == 3      \* layout runs given to split_runs_into_pages

----------------------------------------------------------------------------
(* Geometry.  The four canvas constants are set in the crate root. *)

CANVAS_WIDTH == 1404
CANVAS_HEIGHT == 1872
CANVAS_MARGIN_TOP == 100
CANVAS_MARGIN_BOTTOM == 150

\* the capacity of the tokio channel of the web server
INPUT_INTERNAL_CAPACITY == 32

INDENT_MARGIN_LEFT_EMS == 2
BLOCKQUOTE_BORDER_WIDTH == 5
PLACEHOLDER_IMAGE_WIDTH == 300
PLACEHOLDER_IMAGE_HEIGHT == 300
TABLE_CELL_HEIGHT == 100

(* RenderingSettings, Settings::default.  line_height 1.2 is kept in tenths. *)
font_size == 12
screen_margin_x == 100
line_height_tenths == 12
display_scale == 2

max_y == CANVAS_HEIGHT - CANVAS_MARGIN_BOTTOM

ContentHeight == CANVAS_HEIGHT - CANVAS_MARGIN_TOP - CANVAS_MARGIN_BOTTOM

Max(a, b) == IF a >= b THEN a ELSE b
Min(a, b) == IF a <= b THEN a ELSE b

Front(s) == SubSeq(s, 1, Len(s) - 1)

----------------------------------------------------------------------------
(* f32 arithmetic of the text layout, in tenths of a pixel *)

\* f32::round of a non-negative value given in tenths
Round10(x) == (x + 5) \div 10

\* f32::ceil of a non-negative value given in tenths
Ceil10(x) == (x + 9) \div 10

\* Metrics::relative(font_size * k, line_height).scale(display_scale): the line
\* height of a block, in tenths of a pixel; k is given in hundredths.
HeadingScale100(level) ==
    CASE level = 1 -> 200
      [] level = 2 -> 150
      [] level = 3 -> 125
      [] OTHER -> 100

LineHeight10(block) ==
    IF block.type = "Heading"
    THEN (font_size * HeadingScale100(block.level) * line_height_tenths * display_scale) \div 100
    ELSE font_size * line_height_tenths * display_scale

----------------------------------------------------------------------------
(* Urls.  The content of a url string is not inspected: what Url::parse and *)
(* Url::join make of a string is given by the set the string is in.         *)

\* the strings Url::parse accepts: absolute urls
AbsoluteUrls == {"https://example.com/", "https://cdn.example.com/far.png"}

\* the strings that have a scheme and that the url crate rejects (a port above 65535)
InvalidUrls == {"http://example.com:99999/a.png"}

\* Url::parse(input).is_ok(): a relative reference has no base to be parsed against
url_parses(input) == input \in AbsoluteUrls

\* base.join(href).is_ok(), for a base that parsed
url_joins(href) == href \notin InvalidUrls

\* network::resolve_url: both results are unwrapped.  A resolved url is <<href>>
\* for an absolute href and <<base, href>> for a reference relative to the base.
resolve_url(base, href) ==
    IF ~url_parses(base) \/ ~url_joins(href)
    THEN [panic |-> TRUE, url |-> <<>>]
    ELSE [panic |-> FALSE, url |-> IF href \in AbsoluteUrls THEN <<href>> ELSE <<base, href>>]

\* the page the documents of the model come from, and a page url that is no url
\* (the x-skelly-page-url header of a render command is not validated)
PageUrl == "https://example.com/"

NotAUrl == "not a url"

----------------------------------------------------------------------------
(* The images handed to Renderer::new: resolved url -> None | Some(image).  *)
(* A url outside the domain is a key the map does not hold.                 *)

NoImage == [w |-> 0, h |-> 0]

\* the image references of the page that were requested
FetchedHrefs == {"broken.png", "tiny.png", "near.png", "fit.png", "tall.png", "wide.png"}

ImagesByUrl ==
    [key \in {<<PageUrl, u>> : u \in FetchedHrefs} |->
        CASE key[2] = "broken.png" -> NoImage
          [] key[2] = "tiny.png" -> [w |-> 1, h |-> 1]
          [] key[2] = "near.png" -> [w |-> 600, h |-> ContentHeight - 120]
          [] key[2] = "fit.png" -> [w |-> 600, h |-> ContentHeight]
          [] key[2] = "tall.png" -> [w |-> 600, h |-> CANVAS_HEIGHT + 10]
          [] OTHER -> [w |-> 2408, h |-> 1000]]

----------------------------------------------------------------------------
(* Block renderers.  A RenderedBlock is                                     *)
(*   height, breakpoints : as in the code                                   *)
(*   panic               : the call panics (pixel access outside a canvas,  *)
(*                         u32 underflow, unreachable!())                   *)
(*   atoms               : the row ranges [from, to) of the images and      *)
(*                         table cells drawn into the canvas                *)

\* A u32 is kept as its two halves of 16 bits, value = hi * 65536 + lo.
u32(n) == [hi |-> n \div 65536, lo |-> n % 65536]

u32_value(a) == a.hi * 65536 + a.lo

u32_le(a, b) == a.hi < b.hi \/ (a.hi = b.hi /\ a.lo <= b.lo)

\* a - b in u32: the build with overflow checks panics when b > a, the build
\* without them wraps around
u32_sub(a, b) ==
    LET lo == a.lo - b.lo
        hi == a.hi - b.hi - (IF lo < 0 THEN 1 ELSE 0)
    IN [underflow |-> hi < 0, value |-> [hi |-> hi % 65536, lo |-> lo % 65536]]

\* settings.canvas_width - settings.margin_left - settings.margin_right
available_content_width(canvas_width, margin_left, margin_right) ==
    LET first == u32_sub(u32(canvas_width), u32(margin_left))
        second == u32_sub(first.value, u32(margin_right))
    IN [underflow |-> first.underflow \/ second.underflow, value |-> second.value]

\* the BlockRenderSettings of the children of a BlockQuote and of a ListItem
child_settings(margin_left, margin_right) ==
    [margin_left |-> margin_left + INDENT_MARGIN_LEFT_EMS * font_size,
     margin_right |-> margin_right]

Rendered(h, bps, p, as) == [height |-> h, breakpoints |-> bps, panic |-> p, atoms |-> as]

Shift(bps, dy) == [i \in 1..Len(bps) |-> dy + bps[i]]

ShiftAtoms(as, dy) == [i \in 1..Len(as) |-> [from |-> dy + as[i].from, to |-> dy + as[i].to]]

\* mutant: the breakpoints of the children copied as they are, not shifted
RECURSIVE StackChildrenUnshifted(_)
StackChildrenUnshifted(rs) ==
    IF rs = <<>>
    THEN Rendered(0, <<>>, FALSE, <<>>)
    ELSE LET prev == StackChildrenUnshifted(Front(rs))
             r == rs[Len(rs)]
         IN Rendered(prev.height + r.height,
                     prev.breakpoints \o r.breakpoints,
                     prev.panic \/ r.panic,
                     prev.atoms \o ShiftAtoms(r.atoms, prev.height))

\* The stacking loop shared by the containers: the children one under the other,
\* the breakpoints of each shifted by the heights of the children before it.
RECURSIVE StackChildren(_)
StackChildren(rs) ==
    IF rs = <<>>
    THEN Rendered(0, <<>>, FALSE, <<>>)
    ELSE LET prev == StackChildren(Front(rs))
             r == rs[Len(rs)]
         IN Rendered(prev.height + r.height,
                     prev.breakpoints \o Shift(r.breakpoints, prev.height),
                     prev.panic \/ r.panic,
                     prev.atoms \o ShiftAtoms(r.atoms, prev.height))

render_placeholder_image_block(canvas_width, margin_left) ==
    Rendered(PLACEHOLDER_IMAGE_HEIGHT, <<0>>,
             margin_left + PLACEHOLDER_IMAGE_WIDTH >= canvas_width,
             <<[from |-> 0, to |-> PLACEHOLDER_IMAGE_HEIGHT]>>)

\* DynamicImage::resize(destination_width, u32::MAX, _): the aspect ratio kept
rescale_image(image, destination_width) ==
    [w |-> Max(destination_width, 1),
     h |-> Max((2 * image.h * destination_width + image.w) \div (2 * image.w), 1)]

render_image_block(url, margin_left, margin_right) ==
    IF resolve_url(webpage_url, url).panic
    THEN Rendered(0, <<>>, TRUE, <<>>)
    ELSE IF \/ resolve_url(webpage_url, url).url \notin DOMAIN images
            \/ images[resolve_url(webpage_url, url).url] = NoImage
    THEN render_placeholder_image_block(CANVAS_WIDTH, margin_left)
    ELSE LET raw == images[resolve_url(webpage_url, url).url]
             available == available_content_width(CANVAS_WIDTH, margin_left, margin_right)
             image == IF u32_le(u32(raw.w), available.value)
                      THEN raw
                      ELSE rescale_image(raw, u32_value(available.value))
         IN Rendered(image.h, <<0>>, overflow_checks /\ available.underflow,
                     <<[from |-> 0, to |-> image.h]>>)

\* mutant: a cell that may be cut half way
render_table_cell_split(margin_left, margin_right) ==
    Rendered(TABLE_CELL_HEIGHT, <<0, TABLE_CELL_HEIGHT \div 2>>,
             \/ margin_right = 0
             \/ margin_left >= CANVAS_WIDTH,
             <<[from |-> 0, to |-> TABLE_CELL_HEIGHT]>>)

render_table_cell(margin_left, margin_right) ==
    Rendered(TABLE_CELL_HEIGHT, <<0>>,
             \/ margin_right = 0
             \/ margin_left >= CANVAS_WIDTH,
             <<[from |-> 0, to |-> TABLE_CELL_HEIGHT]>>)

\* The row pushes offset_y once for each cell, whatever the breakpoints of the cell.
render_table_row(row, margin_left, margin_right) ==
    LET rendered_cells == [i \in 1..row.cells |-> render_table_cell(margin_left, margin_right)]
        stacked == StackChildren(rendered_cells)
    IN Rendered(stacked.height,
                [i \in 1..row.cells |-> StackChildren(SubSeq(rendered_cells, 1, i - 1)).height],
                stacked.panic, stacked.atoms)

\* mutant: no row added for the bottom border
render_table_block_without_border(rows, margin_left, margin_right) ==
    LET rendered_rows == [i \in 1..Len(rows) |-> render_table_row(rows[i], margin_left, margin_right)]
        stacked == StackChildren(rendered_rows)
    IN Rendered(stacked.height, stacked.breakpoints,
                \/ stacked.panic
                \/ (margin_left + margin_right <= CANVAS_WIDTH /\ margin_right = 0),
                stacked.atoms)

render_table_block(rows, margin_left, margin_right) ==
    LET rendered_rows == [i \in 1..Len(rows) |-> render_table_row(rows[i], margin_left, margin_right)]
        stacked == StackChildren(rendered_rows)
        total_height == stacked.height + 1
    IN Rendered(total_height, stacked.breakpoints,
                \/ stacked.panic
                \/ (margin_left + margin_right <= CANVAS_WIDTH /\ margin_right = 0),
                stacked.atoms)

\* the canvas row of the bottom border of a table: total_height - 1
bottom_border_y(rows, margin_left, margin_right) ==
    render_table_block(rows, margin_left, margin_right).height - 1

\* The shaper returns block.runs layout runs, run i at line_top = (i - 1) * line height.
render_text_based_block(block, margin_left, margin_right) ==
    LET lh == LineHeight10(block)
        n == block.runs
        rendered_block_height == IF n = 0 THEN 0 ELSE Ceil10((n - 1) * lh + lh)
    IN Rendered(rendered_block_height,
                [i \in 1..n |-> Round10((i - 1) * lh)],
                \/ block.type \in {"List", "BlockQuote", "Table"}
                \/ (block.type = "Heading" /\ block.level \notin 1..6)
                \/ /\ overflow_checks
                   /\ available_content_width(CANVAS_WIDTH, margin_left, margin_right).underflow,
                <<>>)

RECURSIVE render_block(_, _, _)

render_blockquote_block(content, margin_left, margin_right) ==
    LET child == child_settings(margin_left, margin_right)
        stacked == StackChildren([i \in 1..Len(content) |->
                        render_block(content[i], child.margin_left, child.margin_right)])
    IN Rendered(stacked.height, stacked.breakpoints,
                \/ stacked.panic
                \/ (stacked.height > 0 /\ margin_left + BLOCKQUOTE_BORDER_WIDTH > CANVAS_WIDTH),
                stacked.atoms)

render_list_item(list_item, margin_left, margin_right) ==
    LET child == child_settings(margin_left, margin_right)
        stacked == StackChildren([i \in 1..Len(list_item.content) |->
                        render_block(list_item.content[i], child.margin_left, child.margin_right)])
    IN Rendered(stacked.height, stacked.breakpoints,
                \/ stacked.panic
                \/ stacked.height < BLOCKQUOTE_BORDER_WIDTH
                \/ margin_left + BLOCKQUOTE_BORDER_WIDTH > CANVAS_WIDTH,
                stacked.atoms)

render_list_block(list_items, margin_left, margin_right) ==
    LET stacked == StackChildren([i \in 1..Len(list_items) |->
                        render_list_item(list_items[i], margin_left, margin_right)])
    IN Rendered(stacked.height, stacked.breakpoints, stacked.panic, stacked.atoms)

render_block(block, margin_left, margin_right) ==
    CASE block.type = "Image" -> render_image_block(block.url, margin_left, margin_right)
      [] block.type = "BlockQuote" -> render_blockquote_block(block.content, margin_left, margin_right)
      [] block.type = "List" -> render_list_block(block.items, margin_left, margin_right)
      [] block.type = "Table" -> render_table_block(block.rows, margin_left, margin_right)
      [] OTHER -> render_text_based_block(block, margin_left, margin_right)

----------------------------------------------------------------------------
(* Documents *)

Paragraph(n) == [type |-> "Paragraph", runs |-> n]
Heading(l, n) == [type |-> "Heading", level |-> l, runs |-> n]
Image(u) == [type |-> "Image", url |-> u]
BlockQuote(c) == [type |-> "BlockQuote", content |-> c]
ListItem(c) == [content |-> c]
List(items) == [type |-> "List", items |-> items]
TableRow(n) == [cells |-> n]
Table(rows) == [type |-> "Table", rows |-> rows]

SeqsUpTo(S, n) == UNION {[1..k -> S] : k \in 0..n}

NonEmptySeqsUpTo(S, n) == UNION {[1..k -> S] : k \in 1..n}

SimpleBlocks ==
    {Paragraph(n) : n \in 1..MaxRuns}
    \cup {Heading(1, 1), Table(<<TableRow(MaxChildren)>>)}
    \cup {Image(u) : u \in {"absent.png", "near.png", "fit.png", "tall.png", "wide.png",
                             "broken.png", "http://example.com:99999/a.png"}}

InnerBlocks == {Paragraph(1), Image("absent.png"), Image("tiny.png")}

NestedBlocks ==
    {BlockQuote(<<>>), BlockQuote(<<Paragraph(1)>>),
     List(<<ListItem(<<Paragraph(1)>>)>>), List(<<ListItem(<<>>)>>),
     Table(<<TableRow(1)>>)}

ListItems ==
    {ListItem(c) : c \in SeqsUpTo(InnerBlocks \cup {List(<<ListItem(<<Paragraph(1)>>)>>)}, 1)}

ContainerBlocks ==
    {BlockQuote(c) : c \in SeqsUpTo(InnerBlocks \cup NestedBlocks, MaxChildren)}
    \cup {List(items) : items \in NonEmptySeqsUpTo(ListItems, MaxChildren)}
    \cup {Table(rows) : rows \in NonEmptySeqsUpTo({TableRow(c) : c \in 1..MaxChildren}, MaxChildren)}

Fillers == {Image("near.png"), Paragraph(1)}

Documents ==
    {[blocks |-> bs] : bs \in SeqsUpTo(SimpleBlocks, MaxBlocks)}
    \cup {[blocks |-> <<c>>] : c \in ContainerBlocks}
    \cup {[blocks |-> <<f, c>>] : f \in Fillers, c \in ContainerBlocks}
    \cup {[blocks |-> <<c, f>>] : f \in Fillers, c \in ContainerBlocks}

----------------------------------------------------------------------------
(* parsing.rs: the syntax tree and the values of the parser *)

\* A node of the syntax tree: its kind, its named children and the text it covers.
\* A string is a sequence of pieces.
Node(kind, children) == [kind |-> kind, children |-> children, text |-> <<>>]

Leaf(kind, text) == [kind |-> kind, children |-> <<>>, text |-> text]

\* Option<T>: None, or Some(v)
None == <<>>

Some(v) == <<v>>

\* Node::named_child(i)
named_child(node, i) ==
    IF i + 1 <= Len(node.children) THEN Some(node.children[i + 1]) ELSE None

\* node.named_children(..).find(|child| child.kind() == kind)
find_kind(node, kind) ==
    LET found == {i \in 1..Len(node.children) : node.children[i].kind = kind}
    IN IF found = {} THEN None
       ELSE Some(node.children[CHOOSE i \in found : \A j \in found : i <= j])

\* Node::utf8_text: the source is a String, the text of a node is valid UTF-8
utf8_text(node) == node.text

\* the variants of ParseError
HtmdError == [error |-> "HtmdError"]

TreeSitterError == [error |-> "TreeSitterError"]

UnexpectedNodeKind(kind) == [error |-> "UnexpectedNodeKind", kind |-> kind]

WrongNodeKind(expected, received) ==
    [error |-> "WrongNodeKind", expected |-> expected, received |-> received]

MissingExpectedNodeKind(expected) ==
    [error |-> "MissingExpectedNodeKind", expected |-> expected]

\* Result<T, ParseError>.  trace is history: the errors that the calls made for this
\* result returned, in the order they were returned.
Ok(v) == [ok |-> TRUE, val |-> v, trace |-> <<>>]

Err(e) == [ok |-> FALSE, err |-> e, trace |-> <<e>>]

\* the result rest, reached after the call that returned r (the history of both)
After(r, rest) == [rest EXCEPT !.trace = r.trace \o @]

expect_node_kind(node, expected_kind) ==
    IF node = None THEN Err(MissingExpectedNodeKind(expected_kind))
    ELSE IF node[1].kind # expected_kind
         THEN Err(WrongNodeKind(expected_kind, node[1].kind))
         ELSE Ok(node[1])

SpanStyle == {"Normal", "Bold", "Italic", "BoldItalic", "Code"}

\* mutant: the innermost style always wins
merge_styles_innermost(parent_style, new_style) == new_style

merge_styles(parent_style, new_style) ==
    CASE parent_style = "Bold" /\ new_style = "Italic" -> "BoldItalic"
      [] parent_style = "Italic" /\ new_style = "Bold" -> "BoldItalic"
      [] OTHER -> new_style

TextSpan(content, style) == [span |-> "Text", content |-> content, style |-> style]

LinkSpan(link) == [span |-> "Link", destination |-> link.destination, text |-> link.text]

----------------------------------------------------------------------------
(* parsing.rs: spans *)

\* The ? operator: the Err that r is, or, r being Ok, what rest makes of its value.
\* r is evaluated once.
Try(r, rest(_)) ==
    CHOOSE result \in {IF v.ok THEN After(v, rest(v.val)) ELSE v : v \in {r}} : TRUE

link_text(node_link_text) ==
    IF node_link_text = None THEN <<"(no link text)">>
    ELSE IF /\ Len(node_link_text[1].children) = 1
            /\ node_link_text[1].children[1].kind = "text"
         THEN utf8_text(node_link_text[1].children[1])
         ELSE <<"(complex link contents)">>

parse_link(node_link) ==
    Try(expect_node_kind(find_kind(node_link, "link_destination"), "link_destination"),
        LAMBDA node_link_destination :
    Try(expect_node_kind(named_child(node_link_destination, 0), "text"),
        LAMBDA node_link_destination_inner :
    Ok([destination |-> utf8_text(node_link_destination_inner),
        text |-> link_text(find_kind(node_link, "link_text"))])))

\* The pieces of the placeholder texts stand for the formatted strings.
backslash_escape_text(text) ==
    CASE text = <<"\\[">> -> <<"[">>
      [] text = <<"\\]">> -> <<"]">>
      [] text = <<"\\_">> -> <<"_">>
      [] OTHER -> <<"[TODO: handle backslash_escape content ">> \o text \o <<"]">>

RECURSIVE parse_span(_, _)
RECURSIVE flatten_child_spans(_, _)

\* the loop over the named children of node_parent: its first turn, then the rest
flatten_child_spans(node_parent, parent_style) ==
    IF node_parent.children = <<>> THEN Ok(<<>>)
    ELSE Try(parse_span(Head(node_parent.children), parent_style),
             LAMBDA spans :
         Try(flatten_child_spans([node_parent EXCEPT !.children = Tail(@)], parent_style),
             LAMBDA overall_spans :
         Ok(spans \o overall_spans)))

parse_span(node_span, parent_style) ==
    CASE node_span.kind = "text" ->
            Ok(<<TextSpan(utf8_text(node_span), parent_style)>>)
      [] node_span.kind = "link" ->
            Try(parse_link(node_span), LAMBDA link : Ok(<<LinkSpan(link)>>))
      [] node_span.kind = "strong_emphasis" ->
            flatten_child_spans(node_span, merge_styles(parent_style, "Bold"))
      [] node_span.kind = "emphasis" ->
            flatten_child_spans(node_span, merge_styles(parent_style, "Italic"))
      [] node_span.kind = "code_span" ->
            Try(expect_node_kind(named_child(node_span, 0), "text"),
                LAMBDA node_code_span_content :
            Ok(<<TextSpan(utf8_text(node_code_span_content), "Code")>>))
      [] node_span.kind = "backslash_escape" ->
            Ok(<<TextSpan(backslash_escape_text(utf8_text(node_span)), parent_style)>>)
      [] node_span.kind = "hard_line_break" ->
            Ok(<<TextSpan(<<"\n">>, parent_style)>>)
      [] OTHER ->
            Ok(<<TextSpan(<<"[TODO: parse node ", node_span.kind, "]">>, parent_style)>>)

----------------------------------------------------------------------------
(* parsing.rs: blocks *)

RECURSIVE trim_start(_)

\* str::trim_start
trim_start(text) ==
    IF text # <<>> /\ Head(text) = " " THEN trim_start(Tail(text)) ELSE text

\* the leading space of the first span of a heading is trimmed
trim_first_span(spans) ==
    IF spans # <<>> /\ spans[1].span = "Text"
    THEN [spans EXCEPT ![1].content = trim_start(@)]
    ELSE spans

\* mutant: the sixth marker gives a level the renderer has no arm for
heading_level_up_to_seven(marker_kind) ==
    CASE marker_kind = "atx_h1_marker" -> Some(1)
      [] marker_kind = "atx_h2_marker" -> Some(2)
      [] marker_kind = "atx_h3_marker" -> Some(3)
      [] marker_kind = "atx_h4_marker" -> Some(4)
      [] marker_kind = "atx_h5_marker" -> Some(5)
      [] marker_kind = "atx_h6_marker" -> Some(7)
      [] OTHER -> None

heading_level(marker_kind) ==
    CASE marker_kind = "atx_h1_marker" -> Some(1)
      [] marker_kind = "atx_h2_marker" -> Some(2)
      [] marker_kind = "atx_h3_marker" -> Some(3)
      [] marker_kind = "atx_h4_marker" -> Some(4)
      [] marker_kind = "atx_h5_marker" -> Some(5)
      [] marker_kind = "atx_h6_marker" -> Some(6)
      [] OTHER -> None

\* The cursor starts at the heading; goto_first_child leaves it there when the
\* heading has no child.
parse_heading(node_heading) ==
    LET first == IF node_heading.children = <<>> THEN node_heading
                 ELSE node_heading.children[1]
    IN IF heading_level(first.kind) = None THEN Err(UnexpectedNodeKind(first.kind))
       ELSE IF Len(node_heading.children) < 2 THEN Ok(None)
       ELSE IF node_heading.children[2].kind # "heading_content"
            THEN Err(UnexpectedNodeKind(node_heading.children[2].kind))
       ELSE Try(flatten_child_spans(node_heading.children[2], "Normal"),
                LAMBDA spans :
            Ok(Some([type |-> "Heading", level |-> heading_level(first.kind)[1],
                     content |-> trim_first_span(spans)])))

image_alt_text(node_image_description) ==
    IF node_image_description = None THEN Ok(None)
    ELSE Try(expect_node_kind(named_child(node_image_description[1], 0), "text"),
             LAMBDA node_image_description_inner_text :
         Ok(Some(utf8_text(node_image_description_inner_text))))

parse_image(node_paragraph) ==
    Try(expect_node_kind(named_child(node_paragraph, 0), "image"),
        LAMBDA node_image :
    Try(expect_node_kind(find_kind(node_image, "link_destination"), "link_destination"),
        LAMBDA node_link_destination :
    Try(expect_node_kind(named_child(node_link_destination, 0), "text"),
        LAMBDA node_link_destination_inner_text :
    Try(image_alt_text(find_kind(node_image, "image_description")),
        LAMBDA alt_text :
    Ok(Some([type |-> "Image", url |-> utf8_text(node_link_destination_inner_text),
             alt_text |-> alt_text]))))))

parse_paragraph(node_paragraph) ==
    LET kinds == {node_paragraph.children[i].kind : i \in 1..Len(node_paragraph.children)}
        has_image == "image" \in kinds
        has_text == "text" \in kinds
    IN IF has_image /\ ~has_text THEN parse_image(node_paragraph)
       ELSE Try(flatten_child_spans(node_paragraph, "Normal"),
                LAMBDA spans :
            Ok(Some([type |-> "Paragraph", content |-> spans])))

RECURSIVE code_fence_content(_)

\* the loop over the children of the code_fence_content node
code_fence_content(node) ==
    IF node.children = <<>> THEN Ok(<<>>)
    ELSE CASE Head(node.children).kind = "text" ->
                 Try(code_fence_content([node EXCEPT !.children = Tail(@)]),
                     LAMBDA content : Ok(utf8_text(Head(node.children)) \o content))
           [] Head(node.children).kind = "line_break" ->
                 Try(code_fence_content([node EXCEPT !.children = Tail(@)]),
                     LAMBDA content : Ok(<<"\n">> \o content))
           [] OTHER -> Err(UnexpectedNodeKind(Head(node.children).kind))

code_block_language(node_info_string) ==
    IF node_info_string = None THEN Ok(None)
    ELSE Try(expect_node_kind(named_child(node_info_string[1], 0), "text"),
             LAMBDA node_text : Ok(Some(utf8_text(node_text))))

parse_code_block(node_fenced_code_block) ==
    Try(code_block_language(find_kind(node_fenced_code_block, "info_string")),
        LAMBDA language :
    Try(expect_node_kind(find_kind(node_fenced_code_block, "code_fence_content"),
                         "code_fence_content"),
        LAMBDA node_code_fence_content :
    Try(code_fence_content(node_code_fence_content),
        LAMBDA content :
    Ok(Some([type |-> "CodeBlock", language |-> language, content |-> content])))))

parse_table_cell(node_cell) ==
    IF node_cell.kind # "table_cell"
    THEN Err(WrongNodeKind("table_cell", node_cell.kind))
    ELSE Try(flatten_child_spans(node_cell, "Normal"),
             LAMBDA content : Ok([content |-> content]))

RECURSIVE parse_table_cells(_)

\* the loop of parse_table_row over the cells of the row
parse_table_cells(node_row) ==
    IF node_row.children = <<>> THEN Ok(<<>>)
    ELSE Try(parse_table_cell(Head(node_row.children)),
             LAMBDA cell :
         Try(parse_table_cells([node_row EXCEPT !.children = Tail(@)]),
             LAMBDA cells :
         Ok(<<cell>> \o cells)))

parse_table_row(node_row) ==
    IF node_row.kind \notin {"table_header_row", "table_data_row"} THEN Ok(None)
    ELSE Try(parse_table_cells(node_row), LAMBDA cells : Ok(Some([cells |-> cells])))

RECURSIVE parse_table_rows(_)

\* the loop of parse_table over the rows of the table
parse_table_rows(node_table) ==
    IF node_table.children = <<>> THEN Ok(<<>>)
    ELSE Try(parse_table_row(Head(node_table.children)),
             LAMBDA row :
         Try(parse_table_rows([node_table EXCEPT !.children = Tail(@)]),
             LAMBDA rows :
         Ok(row \o rows)))

parse_table(node_table) ==
    Try(parse_table_rows(node_table), LAMBDA rows : Ok(Some([type |-> "Table", rows |-> rows])))

RECURSIVE parse_block(_)
RECURSIVE parse_child_blocks(_)
RECURSIVE parse_list_items(_)

\* mutant: a block that fails to parse is left out and the loop goes on
parse_child_blocks_skipping(parent_block) ==
    IF parent_block.children = <<>> THEN Ok(<<>>)
    ELSE CHOOSE result \in
             {After(block_result,
                    IF rest.ok /\ block_result.ok
                    THEN [rest EXCEPT !.val = block_result.val \o @]
                    ELSE rest) :
                 block_result \in {parse_block(Head(parent_block.children))},
                 rest \in {parse_child_blocks([parent_block EXCEPT !.children = Tail(@)])}} :
             TRUE

\* the loop over the named children of parent_block: its first turn, then the rest
parse_child_blocks(parent_block) ==
    IF parent_block.children = <<>> THEN Ok(<<>>)
    ELSE Try(parse_block(Head(parent_block.children)),
             LAMBDA block :
         Try(parse_child_blocks([parent_block EXCEPT !.children = Tail(@)]),
             LAMBDA blocks :
         Ok(block \o blocks)))

parse_block_quote(node_block_quote) ==
    Try(parse_child_blocks(node_block_quote),
        LAMBDA child_blocks : Ok(Some([type |-> "BlockQuote", content |-> child_blocks])))

\* named_child(0) of a list_item is its marker: the grammar has no list_item without one
parse_list_item(node_list_item) ==
    Try(expect_node_kind(named_child(node_list_item, 0), "list_marker"),
        LAMBDA node_list_marker :
    Try(parse_child_blocks(node_list_item),
        LAMBDA child_blocks :
    Ok([marker |-> "Bullet", content |-> child_blocks])))

\* the loop of parse_list over the items of the list
parse_list_items(node_list) ==
    IF node_list.children = <<>> THEN Ok(<<>>)
    ELSE Try(expect_node_kind(Some(Head(node_list.children)), "list_item"),
             LAMBDA node_list_item :
         Try(parse_list_item(node_list_item),
             LAMBDA item :
         Try(parse_list_items([node_list EXCEPT !.children = Tail(@)]),
             LAMBDA items :
         Ok(<<item>> \o items))))

parse_list(node_list) ==
    Try(parse_list_items(node_list), LAMBDA items : Ok(Some([type |-> "List", items |-> items])))

parse_block(node_block) ==
    CASE node_block.kind = "atx_heading" -> parse_heading(node_block)
      [] node_block.kind = "paragraph" -> parse_paragraph(node_block)
      [] node_block.kind = "tight_list" -> parse_list(node_block)
      [] node_block.kind = "loose_list" -> parse_list(node_block)
      [] node_block.kind = "block_quote" -> parse_block_quote(node_block)
      [] node_block.kind = "thematic_break" -> Ok(Some([type |-> "ThematicBreak"]))
      [] node_block.kind = "fenced_code_block" -> parse_code_block(node_block)
      [] node_block.kind = "html_block" ->
            Ok(Some([type |-> "Paragraph",
                     content |-> <<TextSpan(<<"(HTML block)">>, "Normal")>>]))
      [] node_block.kind = "list_marker" -> Ok(None)
      [] node_block.kind = "table" -> parse_table(node_block)
      [] OTHER -> Err(UnexpectedNodeKind(node_block.kind))

\* the walk of parse_webpage over the tree: a Document, or the error and no Document
WebpageResult(child_blocks) ==
    IF ~child_blocks.ok
    THEN [ok |-> FALSE, err |-> child_blocks.err, trace |-> child_blocks.trace]
    ELSE [ok |-> TRUE, document |-> [blocks |-> child_blocks.val],
          trace |-> child_blocks.trace]

parse_tree(node_doc) ==
    CHOOSE result \in {WebpageResult(child_blocks) :
                          child_blocks \in {parse_child_blocks(node_doc)}} : TRUE

----------------------------------------------------------------------------
(* Renderer::render_document *)

NoBlock == Rendered(0, <<>>, FALSE, <<>>)

\* no tree and no result: parse_webpage is not running
NoTree == Node("", <<>>)

NoResult == [pending |-> TRUE]

\* no element: no conversion is running
NoElement == [data |-> "None"]

\* no width: no block has been rendered
NoWidth == [hi |-> 0 - 1, lo |-> 0 - 1]

\* a LayoutPage
LayoutPage(runs, offset) == [runs |-> runs, offset |-> offset]

\* no call of split_runs_into_pages
IdleLayout ==
    /\ all_runs = <<>>
    /\ content_height = 0
    /\ run_idx = 1
    /\ pages = <<>>
    /\ current_page = LayoutPage(<<>>, 0)
    /\ layout_pc = "off"

\* no call of render_block is followed
IdleNest ==
    /\ settings = [canvas_width |-> CANVAS_WIDTH, margin_left |-> 0, margin_right |-> 0]
    /\ levels = 0
    /\ walk_pc = "off"
    /\ content_width = NoWidth

\* the parts of the program that a specification leaves out are idle
IdleRender ==
    /\ document = [blocks |-> <<>>]
    /\ pc = "idle"
    /\ block_idx = 1
    /\ rendered_block = NoBlock
    /\ breakpoint_idx = 1
    /\ page_offset_y = CANVAS_MARGIN_TOP
    /\ current_page_canvas = <<>>
    /\ finished_page_canvases = <<>>
    /\ webpage_url = ""
    /\ images = <<>>

IdleParse ==
    /\ tree = NoTree
    /\ parse_pc = "idle"
    /\ parse_result = NoResult

IdleBridge ==
    /\ element = NoElement
    /\ bridge_pc = "idle"
    /\ markdown = <<>>

\* the BrowserCore has been constructed and not called
IdleBrowser ==
    /\ state = [state |-> "Initial"]
    /\ browser_pc = "idle"
    /\ page_url = ""
    /\ requested = <<>>
    /\ calls = 0

\* no request has been answered
NoResponse == [request |-> <<>>, status |-> ""]

\* no Application has been constructed
IdleApp ==
    /\ user_input = <<>>
    /\ input_internal = <<>>
    /\ response = NoResponse
    /\ relay_pc = "off"
    /\ exit_requested = FALSE
    /\ sent = 0
    /\ app_pc = "off"
    /\ current_page_idx = 0
    /\ output = <<>>

\* mutant: the segment taken to run to the end of the block
block_segment_height_to_end(rb, idx) == rb.height - rb.breakpoints[idx]

\* the height of the segment that starts at breakpoint breakpoint_idx
block_segment_height(rb, idx) ==
    IF idx + 1 <= Len(rb.breakpoints)
    THEN rb.breakpoints[idx + 1] - rb.breakpoints[idx]
    ELSE rb.height - rb.breakpoints[idx]

\* mutant: the page is closed at the bottom of the canvas, not of the content area
starts_new_page_at_canvas_bottom(offset_y, segment_height) ==
    offset_y + segment_height >= CANVAS_HEIGHT

\* the test that closes the current page before a segment is placed
starts_new_page(offset_y, segment_height) == offset_y + segment_height >= max_y

\* mutant: page_offset_y not advanced
next_page_offset_y_stuck(offset_y, segment_height) == offset_y

\* page_offset_y after a segment was placed at offset_y
next_page_offset_y(offset_y, segment_height) == offset_y + segment_height

\* Rows [top, bottom) of the canvas of block b go to rows top + offset_y, ... of the
\* page; a row whose destination is outside the page is skipped.  The result is what
\* the call wrote: rows [from, to) of the block, the first of them at row y.
copy_block_to_page_canvas(b, top, bottom, offset_y) ==
    LET from == Max(top, 0 - offset_y)
        to == Max(from, Min(bottom, CANVAS_HEIGHT - offset_y))
    IN [block |-> b, top |-> top, bottom |-> bottom,
        from |-> from, to |-> to, y |-> from + offset_y]

Init ==
    /\ document \in Documents
    /\ pc = "block"
    /\ block_idx = 1
    /\ rendered_block = NoBlock
    /\ breakpoint_idx = 1
    /\ page_offset_y = CANVAS_MARGIN_TOP
    /\ current_page_canvas = <<>>
    /\ finished_page_canvases = <<>>
    /\ webpage_url \in {PageUrl, NotAUrl}
    /\ images = ImagesByUrl
    /\ overflow_checks \in BOOLEAN
    /\ IdleNest
    /\ IdleLayout
    /\ IdleParse
    /\ IdleBridge
    /\ IdleBrowser
    /\ IdleApp

\* the head of the outer loop: render the next block
RenderBlock ==
    /\ pc = "block"
    /\ block_idx <= Len(document.blocks)
    /\ LET rb == render_block(document.blocks[block_idx], screen_margin_x, screen_margin_x)
       IN /\ rendered_block' = rb
          /\ breakpoint_idx' = 1
          /\ IF rb.panic
             THEN pc' = "panic" /\ block_idx' = block_idx
             ELSE IF rb.breakpoints = <<>>
                  THEN pc' = "block" /\ block_idx' = block_idx + 1
                  ELSE pc' = "segment" /\ block_idx' = block_idx
    /\ UNCHANGED <<document, page_offset_y, current_page_canvas, finished_page_canvases>>
    /\ UNCHANGED <<rendererFields, notRenderVars>>

\* one turn of the inner loop: place the segment that starts at a breakpoint
PlaceSegment ==
    /\ pc = "segment"
    /\ LET breakpoint_y == rendered_block.breakpoints[breakpoint_idx]
           h == block_segment_height(rendered_block, breakpoint_idx)
           new_page == starts_new_page(page_offset_y, h)
           offset == IF new_page THEN CANVAS_MARGIN_TOP ELSE page_offset_y
           last == breakpoint_idx = Len(rendered_block.breakpoints)
       IN IF h < 0
          THEN /\ pc' = "panic"
               /\ UNCHANGED <<block_idx, breakpoint_idx, page_offset_y,
                              current_page_canvas, finished_page_canvases>>
          ELSE /\ finished_page_canvases' =
                     IF new_page THEN Append(finished_page_canvases, current_page_canvas)
                                 ELSE finished_page_canvases
               /\ current_page_canvas' =
                     Append(IF new_page THEN <<>> ELSE current_page_canvas,
                            copy_block_to_page_canvas(block_idx, breakpoint_y,
                                                      breakpoint_y + h, offset - breakpoint_y))
               /\ page_offset_y' = next_page_offset_y(offset, h)
               /\ breakpoint_idx' = IF last THEN 1 ELSE breakpoint_idx + 1
               /\ block_idx' = IF last THEN block_idx + 1 ELSE block_idx
               /\ pc' = IF last THEN "block" ELSE "segment"
    /\ UNCHANGED <<document, rendered_block>>
    /\ UNCHANGED <<rendererFields, notRenderVars>>

\* mutant: the page being filled is not pushed
FinishWithoutLastPage ==
    /\ pc = "block"
    /\ block_idx > Len(document.blocks)
    /\ pc' = "done"
    /\ UNCHANGED <<document, block_idx, rendered_block, breakpoint_idx,
                   page_offset_y, current_page_canvas, finished_page_canvases>>
    /\ UNCHANGED <<rendererFields, notRenderVars>>

\* after the last block: the page being filled is the last page
Finish ==
    /\ pc = "block"
    /\ block_idx > Len(document.blocks)
    /\ finished_page_canvases' = Append(finished_page_canvases, current_page_canvas)
    /\ pc' = "done"
    /\ UNCHANGED <<document, block_idx, rendered_block, breakpoint_idx,
                   page_offset_y, current_page_canvas>>
    /\ UNCHANGED <<rendererFields, notRenderVars>>

Next == RenderBlock \/ PlaceSegment \/ Finish

Spec == Init /\ [][Next]_vars

----------------------------------------------------------------------------
(* parsing.rs: parse_webpage *)

T == Leaf("text", <<"x">>)

Destination(url) == Node("link_destination", <<Leaf("text", <<url>>)>>)

Description == Node("image_description", <<Leaf("text", <<"alt">>)>>)

\* ![alt](a.jpg), ![](b.jpg), and an image without a destination
ImageNodes ==
    {Node("image", <<Description, Destination("a.jpg")>>),
     Node("image", <<Destination("b.jpg")>>),
     Node("image", <<Description>>)}

LinkWithoutDestination == Node("link", <<Node("link_text", <<T>>)>>)

LinkNodes ==
    {Node("link", <<Node("link_text", <<T>>), Destination("u")>>),
     Node("link", <<Node("link_text", <<Node("image", <<Destination("a.jpg")>>)>>),
                    Destination("u")>>),
     LinkWithoutDestination}

StyleKinds == {"emphasis", "strong_emphasis"}

\* an inline node of a kind that parse_span has no arm for
HtmlTag == Leaf("html_open_tag", <<"<u>">>)

InlineLeaves ==
    {T, Node("code_span", <<T>>), Node("code_span", <<>>),
     Leaf("hard_line_break", <<>>), Leaf("backslash_escape", <<"\\_">>),
     HtmlTag}
    \cup ImageNodes \cup LinkNodes

Styled1 == {Node(k, <<T>>) : k \in StyleKinds}

Styled2 ==
    {Node(k, <<T, s, T>>) : k \in StyleKinds, s \in Styled1}
    \cup {Node(k, <<s>>) : k \in StyleKinds, s \in Styled1}
    \cup {Node(k, <<n>>) : k \in StyleKinds, n \in {Node("code_span", <<T>>),
                                                   LinkWithoutDestination, HtmlTag}}

Styled3 == {Node(k, <<s>>) : k \in StyleKinds, s \in Styled2}

ParagraphNodes ==
    {Node("paragraph", c) : c \in NonEmptySeqsUpTo(InlineLeaves \cup Styled1, MaxSpans)}
    \cup {Node("paragraph", <<s>>) : s \in Styled2 \cup Styled3}

HeadingContent == Node("heading_content", <<Leaf("text", <<" ", "h">>)>>)

HeadingMarkers ==
    {"atx_h1_marker", "atx_h2_marker", "atx_h3_marker",
     "atx_h4_marker", "atx_h5_marker", "atx_h6_marker"}

HeadingNodes ==
    {Node("atx_heading", <<Leaf(m, <<"#">>), HeadingContent>>) : m \in HeadingMarkers}
    \cup {Node("atx_heading", <<Leaf("atx_h2_marker", <<"#">>)>>),
          Node("atx_heading", <<>>),
          Node("atx_heading", <<Leaf("atx_h1_marker", <<"#">>),
                                Node("heading_content", <<LinkWithoutDestination>>)>>),
          Node("atx_heading", <<Leaf("atx_h1_marker", <<"#">>),
                                Node("heading_content", <<T, HtmlTag>>)>>)}

CodeBlockNodes ==
    {Node("fenced_code_block",
          <<Node("info_string", <<Leaf("text", <<"rust">>)>>),
            Node("code_fence_content", <<T, Leaf("line_break", <<>>), T>>)>>),
     Node("fenced_code_block", <<Node("code_fence_content", <<T>>)>>),
     Node("fenced_code_block", <<Node("info_string", <<>>),
                                 Node("code_fence_content", <<T>>)>>),
     Node("fenced_code_block", <<>>),
     Node("fenced_code_block",
          <<Node("code_fence_content", <<T, Leaf("backslash_escape", <<"\\_">>)>>)>>)}

Cell(c) == Node("table_cell", c)

TableNodes ==
    {Node("table", <<Node("table_header_row", <<Cell(<<T>>), Cell(<<T>>)>>),
                     Node("table_delimiter_row", <<Node("table_column_alignment", <<>>)>>),
                     Node("table_data_row", <<Cell(<<T>>), Cell(<<>>)>>)>>),
     Node("table", <<Node("table_header_row", <<Cell(<<T>>)>>),
                     Node("table_data_row", <<Cell(<<LinkWithoutDestination>>)>>)>>),
     Node("table", <<Node("table_header_row", <<T>>)>>),
     Node("table", <<Node("table_header_row", <<Cell(<<T>>), Cell(<<HtmlTag, T>>)>>)>>)}

Item(c) == Node("list_item", <<Leaf("list_marker", <<"-">>)>> \o c)

P == Node("paragraph", <<T>>)

ListNodes ==
    {Node(k, <<Item(<<P>>)>>) : k \in {"tight_list", "loose_list"}}
    \cup {Node("tight_list", <<Item(<<P>>), Item(<<>>)>>),
          Node("tight_list", <<Item(<<P, Node("tight_list", <<Item(<<P>>)>>)>>)>>),
          Node("tight_list", <<Item(<<P>>), Item(<<Node("indented_code_block", <<T>>)>>)>>),
          Node("tight_list", <<Item(<<Node("paragraph", <<LinkWithoutDestination>>)>>)>>),
          Node("tight_list",
               <<Node("task_list_item", <<Leaf("task_list_item_marker", <<"[ ]">>), P>>)>>)}

BlockQuoteNodes ==
    {Node("block_quote", c) :
        c \in {<<>>, <<P>>, <<P, Node("setext_heading", <<T>>)>>,
               <<Node("block_quote", <<P>>)>>,
               <<Node("tight_list", <<Item(<<Node("indented_code_block", <<T>>)>>)>>)>>,
               <<Node("paragraph", <<Node("emphasis", <<LinkWithoutDestination>>)>>)>>}}

SimpleNodes ==
    {P, Node("atx_heading", <<Leaf("atx_h1_marker", <<"#">>), HeadingContent>>),
     Leaf("thematic_break", <<"---">>), Leaf("html_block", <<"<hr>">>),
     Node("setext_heading", <<T>>),
     Node("fenced_code_block", <<Node("code_fence_content", <<T>>)>>),
     Node("table", <<Node("table_header_row", <<Cell(<<T>>)>>)>>),
     Node("tight_list", <<Item(<<P>>)>>)}

RichNodes ==
    ParagraphNodes \cup HeadingNodes \cup CodeBlockNodes \cup TableNodes
    \cup ListNodes \cup BlockQuoteNodes

\* the trees the grammar gives: the root is a document
Trees ==
    {Node("document", c) : c \in SeqsUpTo(SimpleNodes, MaxNodes)}
    \cup {Node("document", <<b>>) : b \in RichNodes}
    \cup {Node("document", <<P, b>>) : b \in RichNodes}
    \cup {Node("document", <<b, Node("setext_heading", <<T>>)>>) : b \in RichNodes}

\* a paragraph that holds an image and nothing else
ImageParagraph(url) == Node("paragraph", <<Node("image", <<Description, Destination(url)>>)>>)

\* the trees of the pages the BrowserCore is given
BrowserTrees ==
    {Node("document", c) :
        c \in {<<P>>,
               <<ImageParagraph("a.jpg")>>,
               <<ImageParagraph("a.jpg"), P, ImageParagraph("b.jpg")>>,
               <<Node("tight_list", <<Item(<<ImageParagraph("a.jpg")>>)>>)>>,
               <<ImageParagraph("a.jpg"), Node("block_quote", <<ImageParagraph("b.jpg")>>)>>,
               <<P, Node("setext_heading", <<T>>)>>,
               <<ImageParagraph("a.jpg"), Node("setext_heading", <<T>>)>>,
               <<ImageParagraph("http://example.com:99999/a.png")>>}}

\* the trees of the pages the Application is sent to: one page, two pages when both
\* images load, a page that does not parse, and a page whose image url does not join
AppTrees ==
    {Node("document", c) :
        c \in {<<P>>,
               <<ImageParagraph("a.jpg"), ImageParagraph("b.jpg")>>,
               <<P, Node("setext_heading", <<T>>)>>,
               <<ImageParagraph("http://example.com:99999/a.png")>>}}

\* what the grammar may return: parse_webpage on its own is given every tree of the
\* model, the BrowserCore and the Application the trees of their pages
GrammarTrees ==
    IF browser_pc = "idle" THEN Trees
    ELSE IF app_pc = "off" THEN BrowserTrees
    ELSE AppTrees

InitParse ==
    /\ tree = NoTree
    /\ parse_pc = "convert"
    /\ parse_result = NoResult
    /\ overflow_checks \in BOOLEAN
    /\ IdleNest
    /\ IdleLayout
    /\ IdleRender
    /\ IdleBridge
    /\ IdleBrowser
    /\ IdleApp

\* the conversion of the page to markdown, which is outside the repository
ConvertToMarkdown ==
    /\ parse_pc = "convert"
    /\ \E converted \in BOOLEAN :
          IF converted
          THEN parse_pc' = "tree_sitter" /\ parse_result' = parse_result
          ELSE parse_pc' = "done" /\ parse_result' = Err(HtmdError)
    /\ UNCHANGED <<tree, notParseVars>>

\* the parse of the markdown to a tree, which is outside the repository
TreeSitterParse ==
    /\ parse_pc = "tree_sitter"
    /\ \E tree_sitter_parse_result \in {None} \cup {Some(t) : t \in GrammarTrees} :
          IF tree_sitter_parse_result = None
          THEN parse_pc' = "done" /\ parse_result' = Err(TreeSitterError) /\ tree' = tree
          ELSE /\ parse_pc' = "walk"
               /\ tree' = tree_sitter_parse_result[1]
               /\ parse_result' = parse_result
    /\ UNCHANGED notParseVars

\* the walk over the tree and the return of parse_webpage
ParseTree ==
    /\ parse_pc = "walk"
    /\ tree.kind = "document"
    /\ parse_result' = parse_tree(tree)
    /\ parse_pc' = "done"
    /\ UNCHANGED <<tree, notParseVars>>

NextParse == ConvertToMarkdown \/ TreeSitterParse \/ ParseTree

SpecParse == InitParse /\ [][NextParse]_vars

----------------------------------------------------------------------------
(* parsing.rs: the handlers that parse_webpage gives the HTML converter *)

\* A node of the DOM: an element with a name and children, or a text.
HtmlElement(name, children) == [data |-> "Element", name |-> name, children |-> children]

HtmlText(contents) == [data |-> "Text", contents |-> contents, children |-> <<>>]

RECURSIVE Repeat(_, _)

\* str::repeat
Repeat(text, n) == IF n = 0 THEN <<>> ELSE text \o Repeat(text, n - 1)

\* mutant: th cells counted as columns too
count_table_columns_with_th(tbody_element) ==
    LET rows == {i \in 1..Len(tbody_element.children) :
                    /\ tbody_element.children[i].data = "Element"
                    /\ tbody_element.children[i].name = "tr"}
    IN IF rows = {} THEN 0
       ELSE LET first_row == tbody_element.children[CHOOSE i \in rows : \A j \in rows : i <= j]
            IN Cardinality({i \in 1..Len(first_row.children) :
                               /\ first_row.children[i].data = "Element"
                               /\ first_row.children[i].name \in {"td", "th"}})

RECURSIVE count_td(_)

\* the inner loop of count_table_columns, over the children of the first row
count_td(tr_children) ==
    IF tr_children = <<>> THEN 0
    ELSE (IF Head(tr_children).data = "Element" /\ Head(tr_children).name = "td" THEN 1 ELSE 0)
         + count_td(Tail(tr_children))

RECURSIVE count_table_columns_from(_)

\* the outer loop of count_table_columns: it returns at the first tr element
count_table_columns_from(tbody_children) ==
    IF tbody_children = <<>> THEN 0
    ELSE IF Head(tbody_children).data = "Element" /\ Head(tbody_children).name = "tr"
         THEN count_td(Head(tbody_children).children)
         ELSE count_table_columns_from(Tail(tbody_children))

count_table_columns(tbody_element) == count_table_columns_from(tbody_element.children)

\* the handlers get the element and its content, the conversion of its children
table_cell_handler(content) == <<"| ">> \o content \o <<" ">>

table_row_handler(content) == content \o <<"|\n">>

table_body_handler(tbody_element, content) ==
    LET num_columns == count_table_columns(tbody_element)
    IN IF num_columns = 0 THEN content
       ELSE LET divider == Repeat(<<"| - ">>, num_columns) \o <<"|">>
            IN divider \o <<"\n">> \o content

RECURSIVE ElementContent(_)

\* Element::content: the converter hands a handler the conversions of the children
\* of its element, one after the other; a text converts to itself.
ElementContent(node) ==
    IF node.children = <<>> THEN <<>>
    ELSE LET child == Head(node.children)
             converted ==
                 CASE child.data = "Text" -> child.contents
                   [] child.data = "Element" /\ child.name \in {"td", "th"} ->
                         table_cell_handler(ElementContent(child))
                   [] child.data = "Element" /\ child.name = "tr" ->
                         table_row_handler(ElementContent(child))
                   [] OTHER -> ElementContent(child)
         IN converted \o ElementContent([node EXCEPT !.children = Tail(@)])

CellElements ==
    {HtmlElement(name, <<HtmlText(<<"a">>)>>) : name \in {"td", "th"}}
    \cup {HtmlText(<<" ">>)}

RowElements == {HtmlElement("tr", c) : c \in SeqsUpTo(CellElements, MaxChildren)}

TbodyElements ==
    {HtmlElement("tbody", c) :
        c \in SeqsUpTo(RowElements \cup {HtmlText(<<" ">>), HtmlElement("caption", <<>>)},
                       MaxChildren)}

InitBridge ==
    /\ element \in TbodyElements
    /\ bridge_pc = "tbody"
    /\ markdown = <<>>
    /\ overflow_checks \in BOOLEAN
    /\ IdleNest
    /\ IdleLayout
    /\ IdleRender
    /\ IdleParse
    /\ IdleBrowser
    /\ IdleApp

\* the converter reaches the tbody element, its children converted
TableBodyHandler ==
    /\ bridge_pc = "tbody"
    /\ markdown' = table_body_handler(element, ElementContent(element))
    /\ bridge_pc' = "done"
    /\ UNCHANGED <<element, notBridgeVars>>

NextBridge == TableBodyHandler

SpecBridge == InitBridge /\ [][NextBridge]_vars

----------------------------------------------------------------------------
(* browser_core.rs: BrowserCore *)

\* the variants of BrowserState
Initial == [state |-> "Initial"]

LoadingPage(url) == [state |-> "LoadingPage", url |-> url]

ViewingPage(url, page_canvases) ==
    [state |-> "ViewingPage", url |-> url, page_canvases |-> page_canvases]

PageError(url, error) == [state |-> "PageError", url |-> url, error |-> error]

\* Display of ParseError
parse_error_to_string(err) ==
    CASE err.error = "HtmdError" -> <<"HTMD error">>
      [] err.error = "TreeSitterError" -> <<"TreeSitter error">>
      [] err.error = "UnexpectedNodeKind" ->
             <<"Encountered unexpected node kind: ", err.kind>>
      [] err.error = "WrongNodeKind" ->
             <<"Wrong node kind: Expected ", err.expected, " but received ", err.received>>
      [] OTHER -> <<"Missing expected node kind: ", err.expected>>

\* Display of FetchError
fetch_error_to_string(err) ==
    CASE err.error = "NonSuccessStatusCode" -> <<"Received status code ", err.code>>
      [] OTHER -> <<"Missing Content-Type header">>

\* what fetch_webpage returns: an error, a page that is not HTML, an HTML page
WebpageResponses ==
    {[ok |-> FALSE, err |-> [error |-> "NonSuccessStatusCode", code |-> "404"]],
     [ok |-> FALSE, err |-> [error |-> "MissingContentType"]],
     [ok |-> TRUE, content_type |-> "Other", other |-> "text/plain"],
     [ok |-> TRUE, content_type |-> "HTML"]}

\* what fetch_image returns: an error, data that is no image, the data of an image
ImageResponses ==
    {[ok |-> FALSE], [ok |-> TRUE, data |-> "garbage"], [ok |-> TRUE, data |-> "image"]}

\* the image that the data of the model's image responses decodes to
DecodedImage == [w |-> 600, h |-> 1000]

\* load_image: None when the data does not decode
load_image(image_response) ==
    IF image_response.data = "image" THEN DecodedImage ELSE NoImage

\* the map entry made for one url: None when the fetch failed
fetched_image(image_response) ==
    IF ~image_response.ok THEN NoImage ELSE load_image(image_response)

\* The url of an Image block as a string: the text of a link destination of the
\* model's pages is one piece.
url_string(text) == text[1]

\* get_image_urls: the resolved urls of the Image blocks of document.blocks
get_image_urls(url, doc) ==
    LET image_blocks == SelectSeq(doc.blocks, LAMBDA block : block.type = "Image")
    IN [i \in 1..Len(image_blocks) |-> resolve_url(url, url_string(image_blocks[i].url))]

\* The text shaper is outside the repository.  The texts of the model's pages are
\* shorter than a line: the shaper returns one layout run for each line of a text.
text_lines(content) ==
    1 + Cardinality({i \in 1..Len(content) :
                        content[i].span = "Text" /\ content[i].content = <<"\n">>})

\* the Document as the block renderers read it: the layout runs of a text in place
\* of the text
RECURSIVE Shaped(_)
Shaped(block) ==
    CASE block.type = "Image" -> Image(url_string(block.url))
      [] block.type = "BlockQuote" ->
             BlockQuote([i \in 1..Len(block.content) |-> Shaped(block.content[i])])
      [] block.type = "List" ->
             List([i \in 1..Len(block.items) |->
                     ListItem([j \in 1..Len(block.items[i].content) |->
                                  Shaped(block.items[i].content[j])])])
      [] block.type = "Table" ->
             Table([i \in 1..Len(block.rows) |-> TableRow(Len(block.rows[i].cells))])
      [] block.type = "Heading" -> Heading(block.level, text_lines(block.content))
      [] block.type = "Paragraph" -> Paragraph(text_lines(block.content))
      [] OTHER -> [type |-> block.type, runs |-> 1]

InitBrowser ==
    /\ state = Initial
    /\ browser_pc = "idle"
    /\ page_url = ""
    /\ requested = <<>>
    /\ calls = 0
    /\ overflow_checks \in BOOLEAN
    /\ IdleNest
    /\ IdleLayout
    /\ IdleRender /\ IdleParse /\ IdleBridge /\ IdleApp

\* the entry of do_render: parse_webpage is called
do_render(url) ==
    /\ page_url' = url
    /\ browser_pc' = "parse"
    /\ tree' = NoTree
    /\ parse_pc' = "convert"
    /\ parse_result' = NoResult
    /\ requested' = <<>>

\* BrowserCore::navigate_to, up to the call of fetch_webpage
navigate_to(url) ==
    /\ state' = LoadingPage(url)
    /\ page_url' = url
    /\ browser_pc' = "fetch_webpage"
    /\ requested' = <<>>
    /\ UNCHANGED parseVars

\* BrowserCore::render
render(url) ==
    /\ do_render(url)
    /\ UNCHANGED state

\* a caller of the BrowserCore navigates
NavigateTo ==
    /\ browser_pc = "idle"
    /\ calls < MaxCalls
    /\ calls' = calls + 1
    /\ \E url \in {PageUrl} : navigate_to(url)
    /\ UNCHANGED <<renderVars, bridgeVars>>
    /\ UNCHANGED <<appVars, buildVars, nestVars, layoutVars>>

\* a caller of the BrowserCore hands it the HTML of a page and the url of the page
Render ==
    /\ browser_pc = "idle"
    /\ calls < MaxCalls
    /\ calls' = calls + 1
    /\ \E url \in {PageUrl, NotAUrl} : render(url)
    /\ UNCHANGED <<renderVars, bridgeVars>>
    /\ UNCHANGED <<appVars, buildVars, nestVars, layoutVars>>

\* navigate_to after fetch_webpage returned
FetchWebpage ==
    /\ browser_pc = "fetch_webpage"
    /\ \E fetch_result \in WebpageResponses :
          IF ~fetch_result.ok
          THEN /\ state' = PageError(page_url, fetch_error_to_string(fetch_result.err))
               /\ browser_pc' = "idle"
               /\ UNCHANGED <<page_url, requested, parseVars>>
          ELSE IF fetch_result.content_type = "Other"
          THEN /\ state' = PageError(page_url, <<"Expected HTML content type, got: ",
                                                  "\"", fetch_result.other, "\"">>)
               /\ browser_pc' = "idle"
               /\ UNCHANGED <<page_url, requested, parseVars>>
          ELSE /\ do_render(page_url)
               /\ UNCHANGED state
    /\ UNCHANGED <<calls, renderVars, bridgeVars>>
    /\ UNCHANGED <<appVars, buildVars, nestVars, layoutVars>>

\* mutant: the error of parse_webpage is dropped and the state is left as it was
ParseFailedKeepsState ==
    /\ browser_pc = "parse"
    /\ parse_pc = "done"
    /\ ~parse_result.ok
    /\ browser_pc' = "idle"
    /\ tree' = NoTree /\ parse_pc' = "idle" /\ parse_result' = NoResult
    /\ UNCHANGED <<state, page_url, requested, calls, renderVars, bridgeVars>>
    /\ UNCHANGED <<appVars, buildVars, nestVars, layoutVars>>

\* do_render after parse_webpage returned an error
ParseFailed ==
    /\ browser_pc = "parse"
    /\ parse_pc = "done"
    /\ ~parse_result.ok
    /\ state' = PageError(page_url, parse_error_to_string(parse_result.err))
    /\ browser_pc' = "idle"
    /\ tree' = NoTree /\ parse_pc' = "idle" /\ parse_result' = NoResult
    /\ UNCHANGED <<page_url, requested, calls, renderVars, bridgeVars>>
    /\ UNCHANGED <<appVars, buildVars, nestVars, layoutVars>>

\* do_render after parse_webpage returned a Document: fetch_images
FetchImages ==
    /\ browser_pc = "parse"
    /\ parse_pc = "done"
    /\ parse_result.ok
    /\ LET image_urls == get_image_urls(page_url, parse_result.document)
           keys == {image_urls[i].url : i \in 1..Len(image_urls)}
       IN IF \E i \in 1..Len(image_urls) : image_urls[i].panic
          THEN /\ browser_pc' = "panic"
               /\ UNCHANGED <<images, requested>>
          ELSE /\ browser_pc' = "render"
               /\ requested' = [i \in 1..Len(image_urls) |-> image_urls[i].url]
               /\ \E image_response \in [keys -> ImageResponses] :
                     images' = [key \in keys |-> fetched_image(image_response[key])]
    /\ UNCHANGED <<state, page_url, calls, parseVars, bridgeVars>>
    /\ UNCHANGED <<document, pc, block_idx, rendered_block, breakpoint_idx, page_offset_y,
                   current_page_canvas, finished_page_canvases, webpage_url>>
    /\ UNCHANGED <<appVars, buildVars, nestVars, layoutVars>>

\* Renderer::new and the entry of render_document
StartRender ==
    /\ browser_pc = "render"
    /\ browser_pc' = "rendering"
    /\ webpage_url' = page_url
    /\ document' = [blocks |-> [i \in 1..Len(parse_result.document.blocks) |->
                                   Shaped(parse_result.document.blocks[i])]]
    /\ pc' = "block"
    /\ UNCHANGED <<block_idx, rendered_block, breakpoint_idx, page_offset_y,
                   current_page_canvas, finished_page_canvases>>
    /\ UNCHANGED <<images, state, page_url, requested, calls, parseVars, bridgeVars>>
    /\ UNCHANGED <<appVars, buildVars, nestVars, layoutVars>>

\* do_render after render_document returned: the pages go to the state, the
\* Document and the Renderer are dropped
ViewPage ==
    /\ browser_pc = "rendering"
    /\ pc = "done"
    /\ state' = ViewingPage(page_url, finished_page_canvases)
    /\ browser_pc' = "idle"
    /\ tree' = NoTree /\ parse_pc' = "idle" /\ parse_result' = NoResult
    /\ document' = [blocks |-> <<>>]
    /\ pc' = "idle"
    /\ block_idx' = 1
    /\ rendered_block' = NoBlock
    /\ breakpoint_idx' = 1
    /\ page_offset_y' = CANVAS_MARGIN_TOP
    /\ current_page_canvas' = <<>>
    /\ finished_page_canvases' = <<>>
    /\ webpage_url' = ""
    /\ images' = <<>>
    /\ UNCHANGED <<page_url, requested, calls, bridgeVars>>
    /\ UNCHANGED <<appVars, buildVars, nestVars, layoutVars>>

NextBrowser ==
    \/ NavigateTo \/ Render \/ FetchWebpage
    \/ ConvertToMarkdown \/ TreeSitterParse \/ ParseTree
    \/ ParseFailed \/ FetchImages \/ StartRender
    \/ RenderBlock \/ PlaceSegment \/ Finish
    \/ ViewPage

SpecBrowser == InitBrowser /\ [][NextBrowser]_vars

----------------------------------------------------------------------------
(* application.rs and web_server.rs: the event loop and the senders of events *)

\* the variants of UserInputEvent
RequestInitialPaint == [event |-> "RequestInitialPaint"]

Tap(x) == [event |-> "Tap", x |-> x]

RequestExit == [event |-> "RequestExit"]

ViewPreviousPage == [event |-> "ViewPreviousPage"]

ViewNextPage == [event |-> "ViewNextPage"]

Navigate(url) == [event |-> "Navigate", url |-> url]

RenderCommand(url) == [event |-> "Render", page_url |-> url]

\* OutputEvent::RenderFullScreen of a view of the assets, and of a page
PlaceholderView(name) == [view |-> name]

PageView(page_canvas) == [view |-> "page", canvas |-> page_canvas]

\* the events the backend sends: a tap left of CANVAS_WIDTH / 3 and one right of it
BackendEvents ==
    {RequestInitialPaint, ViewPreviousPage, ViewNextPage, RequestExit,
     Tap(0), Tap(CANVAS_WIDTH \div 3)}

\* the requests of POST /render: without the x-skelly-page-url header, with a value
\* of visible ASCII, or with a value that holds other bytes (HeaderValue::to_str
\* fails on them); the body valid UTF-8, not UTF-8, or not readable
RenderRequests ==
    [page_url : {"absent", "visible ascii", "opaque bytes"},
     body : {"utf8", "not utf8", "unreadable"}]

\* a request of POST /navigate with a NavigateCommand as its JSON body
NavigateRequest == [url |-> PageUrl]

\* mutant: a request is answered 400 when its header is missing, whatever its body
bad_request_without_header(request) == request.page_url = "absent"

\* handle_render_command, the three returns with StatusCode::BAD_REQUEST
bad_request(request) == request.page_url = "absent" \/ request.body # "utf8"

\* handle_render_command: the unwrap of HeaderValue::to_str panics before the body
\* is read; the unwrap of send panics when the receiver of the channel is gone
handler_panics(request) ==
    \/ request.page_url = "opaque bytes"
    \/ ~bad_request(request) /\ relay_pc = "panic"

\* mutant: an event is taken from the channel while the BrowserCore is at work
ready_to_recv_at_any_time == app_pc \in {"recv", "navigate", "render"}

\* the loop head of Application::run: recv is called when the body of the loop
\* has returned
ready_to_recv == app_pc = "recv"

\* Application::view_next_page
view_next_page ==
    IF state.state # "ViewingPage"
    THEN app_pc' = "panic" /\ UNCHANGED <<current_page_idx, output>>
    ELSE /\ app_pc' = "recv"
         /\ IF current_page_idx + 2 <= Len(state.page_canvases)
            THEN /\ current_page_idx' = current_page_idx + 1
                 /\ output' = <<PageView(state.page_canvases[current_page_idx + 2])>>
            ELSE current_page_idx' = current_page_idx /\ output' = <<>>

\* Application::view_previous_page
view_previous_page ==
    IF current_page_idx = 0
    THEN app_pc' = "recv" /\ current_page_idx' = current_page_idx /\ output' = <<>>
    ELSE IF state.state # "ViewingPage"
    THEN app_pc' = "panic" /\ UNCHANGED <<current_page_idx, output>>
    ELSE /\ app_pc' = "recv"
         /\ IF current_page_idx <= Len(state.page_canvases)
            THEN /\ current_page_idx' = current_page_idx - 1
                 /\ output' = <<PageView(state.page_canvases[current_page_idx])>>
            ELSE current_page_idx' = current_page_idx /\ output' = <<>>

\* mutant: the next page is asked for whatever the state of the browser
view_next_page_in_any_state == view_next_page

\* the event is ignored
ignore_event ==
    /\ app_pc' = "recv"
    /\ current_page_idx' = current_page_idx
    /\ output' = <<>>

\* one turn of the loop of Application::run, up to the return of the body or to
\* the call of the BrowserCore
Recv ==
    /\ ready_to_recv
    /\ user_input # <<>>
    /\ user_input' = Tail(user_input)
    /\ LET input_event == Head(user_input)
       IN CASE input_event.event = "RequestInitialPaint" ->
                   /\ output' = <<PlaceholderView("placeholder-initial-view")>>
                   /\ app_pc' = "recv"
                   /\ UNCHANGED <<current_page_idx, browserVars, parseVars>>
            [] input_event.event = "Tap" ->
                   /\ IF state.state = "ViewingPage"
                      THEN IF input_event.x < CANVAS_WIDTH \div 3
                           THEN view_previous_page
                           ELSE view_next_page
                      ELSE ignore_event
                   /\ UNCHANGED <<browserVars, parseVars>>
            [] input_event.event = "RequestExit" ->
                   /\ app_pc' = "exited"
                   /\ UNCHANGED <<current_page_idx, output, browserVars, parseVars>>
            [] input_event.event = "Navigate" ->
                   /\ output' = <<PlaceholderView("placeholder-loading-view")>>
                   /\ app_pc' = "navigate"
                   /\ navigate_to(input_event.url)
                   /\ calls' = calls + 1
                   /\ UNCHANGED current_page_idx
            [] input_event.event = "Render" ->
                   /\ output' = <<PlaceholderView("placeholder-loading-view")>>
                   /\ app_pc' = "render"
                   /\ render(input_event.page_url)
                   /\ calls' = calls + 1
                   /\ UNCHANGED current_page_idx
            [] input_event.event = "ViewPreviousPage" ->
                   /\ IF state.state = "ViewingPage" THEN view_previous_page ELSE ignore_event
                   /\ UNCHANGED <<browserVars, parseVars>>
            [] input_event.event = "ViewNextPage" ->
                   /\ IF state.state = "ViewingPage" THEN view_next_page ELSE ignore_event
                   /\ UNCHANGED <<browserVars, parseVars>>
    /\ UNCHANGED <<input_internal, response, relay_pc, exit_requested, sent>>
    /\ UNCHANGED <<renderVars, bridgeVars, buildVars, nestVars, layoutVars>>

\* mutant: the index of the page shown before is kept for the new page
AfterBrowserCallKeepsIndex ==
    /\ app_pc \in {"navigate", "render"}
    /\ browser_pc = "idle"
    /\ CASE state.state = "ViewingPage" ->
               IF state.page_canvases = <<>>
               THEN app_pc' = "panic" /\ UNCHANGED <<current_page_idx, output>>
               ELSE /\ current_page_idx' = current_page_idx
                    /\ output' = Append(output, PageView(state.page_canvases[1]))
                    /\ app_pc' = "recv"
         [] state.state = "PageError" ->
               /\ output' = Append(output, PlaceholderView("placeholder-error-view"))
               /\ app_pc' = "recv"
               /\ UNCHANGED current_page_idx
         [] OTHER -> app_pc' = "panic" /\ UNCHANGED <<current_page_idx, output>>
    /\ UNCHANGED <<user_input, input_internal, response, relay_pc, exit_requested, sent>>
    /\ UNCHANGED <<renderVars, parseVars, bridgeVars, browserVars, buildVars, nestVars, layoutVars>>

\* the body of the loop after navigate_to or render returned
AfterBrowserCall ==
    /\ app_pc \in {"navigate", "render"}
    /\ browser_pc = "idle"
    /\ CASE state.state = "ViewingPage" ->
               IF state.page_canvases = <<>>
               THEN app_pc' = "panic" /\ UNCHANGED <<current_page_idx, output>>
               ELSE /\ current_page_idx' = 0
                    /\ output' = Append(output, PageView(state.page_canvases[1]))
                    /\ app_pc' = "recv"
         [] state.state = "PageError" ->
               /\ output' = Append(output, PlaceholderView("placeholder-error-view"))
               /\ app_pc' = "recv"
               /\ UNCHANGED current_page_idx
         [] OTHER -> app_pc' = "panic" /\ UNCHANGED <<current_page_idx, output>>
    /\ UNCHANGED <<user_input, input_internal, response, relay_pc, exit_requested, sent>>
    /\ UNCHANGED <<renderVars, parseVars, bridgeVars, browserVars, buildVars, nestVars, layoutVars>>

\* the backend thread sends an event on the std channel; RequestExit is its last
BackendInput ==
    /\ app_pc # "off"
    /\ ~exit_requested
    /\ sent < MaxEvents
    /\ sent' = sent + 1
    /\ \E input_event \in BackendEvents :
          /\ user_input' = Append(user_input, input_event)
          /\ exit_requested' = (input_event = RequestExit)
    /\ UNCHANGED <<input_internal, response, relay_pc, app_pc, current_page_idx, output>>
    /\ UNCHANGED <<renderVars, parseVars, bridgeVars, browserVars, buildVars, nestVars, layoutVars>>

\* handle_navigate_command: the command goes to the tokio channel
HandleNavigateCommand ==
    /\ app_pc # "off"
    /\ sent < MaxEvents
    /\ sent' = sent + 1
    /\ IF relay_pc = "panic"
       THEN /\ response' = [request |-> NavigateRequest, status |-> "no response"]
            /\ UNCHANGED input_internal
       ELSE /\ Len(input_internal) < INPUT_INTERNAL_CAPACITY
            /\ input_internal' = Append(input_internal, Navigate(NavigateRequest.url))
            /\ response' = [request |-> NavigateRequest, status |-> "200 OK"]
    /\ UNCHANGED <<user_input, relay_pc, exit_requested, app_pc, current_page_idx, output>>
    /\ UNCHANGED <<renderVars, parseVars, bridgeVars, browserVars, buildVars, nestVars, layoutVars>>

\* handle_render_command
HandleRenderCommand ==
    /\ app_pc # "off"
    /\ sent < MaxEvents
    /\ sent' = sent + 1
    /\ \E request \in RenderRequests :
          IF handler_panics(request)
          THEN /\ response' = [request |-> request, status |-> "no response"]
               /\ UNCHANGED input_internal
          ELSE IF bad_request(request)
          THEN /\ response' = [request |-> request, status |-> "400 Bad Request"]
               /\ UNCHANGED input_internal
          ELSE /\ Len(input_internal) < INPUT_INTERNAL_CAPACITY
               /\ input_internal' = Append(input_internal, RenderCommand(PageUrl))
               /\ response' = [request |-> request, status |-> "200 OK"]
    /\ UNCHANGED <<user_input, relay_pc, exit_requested, app_pc, current_page_idx, output>>
    /\ UNCHANGED <<renderVars, parseVars, bridgeVars, browserVars, buildVars, nestVars, layoutVars>>

\* the relay thread of run_web_server: from the tokio channel to the std channel;
\* the send fails, and its unwrap panics, when the receiver is gone
Relay ==
    /\ relay_pc = "running"
    /\ input_internal # <<>>
    /\ input_internal' = Tail(input_internal)
    /\ IF app_pc = "exited"
       THEN relay_pc' = "panic" /\ UNCHANGED user_input
       ELSE relay_pc' = relay_pc /\ user_input' = Append(user_input, Head(input_internal))
    /\ UNCHANGED <<response, exit_requested, sent, app_pc, current_page_idx, output>>
    /\ UNCHANGED <<renderVars, parseVars, bridgeVars, browserVars, buildVars, nestVars, layoutVars>>

InitApp ==
    /\ user_input = <<>>
    /\ input_internal = <<>>
    /\ response = NoResponse
    /\ relay_pc = "running"
    /\ exit_requested = FALSE
    /\ sent = 0
    /\ app_pc = "recv"
    /\ current_page_idx = 0
    /\ output = <<>>
    /\ overflow_checks \in BOOLEAN
    /\ IdleNest
    /\ IdleLayout
    /\ IdleBrowser /\ IdleRender /\ IdleParse /\ IdleBridge

NextApp ==
    \/ BackendInput \/ HandleNavigateCommand \/ HandleRenderCommand \/ Relay
    \/ Recv \/ AfterBrowserCall
    \/ FetchWebpage
    \/ ConvertToMarkdown \/ TreeSitterParse \/ ParseTree
    \/ ParseFailed \/ FetchImages \/ StartRender
    \/ RenderBlock \/ PlaceSegment \/ Finish
    \/ ViewPage

SpecApp == InitApp /\ [][NextApp]_vars

----------------------------------------------------------------------------
(* rendering/mod.rs: the settings handed down the calls of render_block.    *)
(* One path of calls is followed from the call render_document makes down   *)
(* to a text block or an image, a step for each call on the path.           *)

\* render_document calls render_block with the default_render_settings
InitNesting ==
    /\ settings = [canvas_width |-> CANVAS_WIDTH,
                   margin_left |-> screen_margin_x,
                   margin_right |-> screen_margin_x]
    /\ levels = 0
    /\ walk_pc = "block"
    /\ content_width = NoWidth
    /\ overflow_checks \in BOOLEAN
    /\ IdleLayout
    /\ IdleRender /\ IdleParse /\ IdleBridge /\ IdleBrowser /\ IdleApp

\* render_blockquote_block and render_list_item: the child is rendered with the
\* child_settings
enter_child ==
    /\ levels < MaxDepth
    /\ settings' = [settings EXCEPT
                       !.margin_left = child_settings(settings.margin_left, settings.margin_right).margin_left,
                       !.margin_right = child_settings(settings.margin_left, settings.margin_right).margin_right]
    /\ levels' = levels + 1
    /\ walk_pc' = "block"
    /\ UNCHANGED content_width

\* the block is a BlockQuote
EnterBlockQuote ==
    /\ walk_pc = "block"
    /\ enter_child
    /\ UNCHANGED <<renderVars, parseVars, bridgeVars, browserVars, appVars, buildVars, layoutVars>>

\* the block is a List: render_list_block hands its settings to render_list_item
EnterList ==
    /\ walk_pc = "block"
    /\ walk_pc' = "list"
    /\ UNCHANGED <<settings, levels, content_width>>
    /\ UNCHANGED <<renderVars, parseVars, bridgeVars, browserVars, appVars, buildVars, layoutVars>>

EnterListItem ==
    /\ walk_pc = "list"
    /\ enter_child
    /\ UNCHANGED <<renderVars, parseVars, bridgeVars, browserVars, appVars, buildVars, layoutVars>>

\* the subtraction of the margins at the block the path ends in
subtract_margins(rendered) ==
    LET available == available_content_width(settings.canvas_width, settings.margin_left,
                                             settings.margin_right)
    IN IF overflow_checks /\ available.underflow
       THEN walk_pc' = "panic" /\ UNCHANGED content_width
       ELSE walk_pc' = rendered /\ content_width' = available.value

\* the block is a text block: render_text_based_block computes buffer_width
RenderTextBased ==
    /\ walk_pc = "block"
    /\ subtract_margins("text")
    /\ UNCHANGED <<settings, levels>>
    /\ UNCHANGED <<renderVars, parseVars, bridgeVars, browserVars, appVars, buildVars, layoutVars>>

\* the block is an image the map holds: render_image_block computes
\* available_content_width
RenderImage ==
    /\ walk_pc = "block"
    /\ subtract_margins("image")
    /\ UNCHANGED <<settings, levels>>
    /\ UNCHANGED <<renderVars, parseVars, bridgeVars, browserVars, appVars, buildVars, layoutVars>>

NextNesting == EnterBlockQuote \/ EnterList \/ EnterListItem \/ RenderTextBased \/ RenderImage

SpecNesting == InitNesting /\ [][NextNesting]_vars

----------------------------------------------------------------------------
(* remarkable/remarkable_app.rs: RemarkableApp::run and handle_tap_on_screen. *)
(* The handle_tap_on_screen of remarkable_backend.rs has the same text; the    *)
(* BrowserCore of a RemarkableBackend is never called and stays Initial.       *)

Initialize == [event |-> "Initialize"]

\* a - b in usize: the build with overflow checks panics when b > a, the build
\* without them wraps around to an index beyond every Vec
usize_sub(a, b) == [underflow |-> a < b, value |-> a - b]

\* Vec::get with an index computed by a subtraction
get_page(page_canvases, index) ==
    IF ~index.underflow /\ index.value < Len(page_canvases)
    THEN Some(page_canvases[index.value + 1])
    ELSE None

\* RemarkableApp::handle_tap_on_screen as a function of the fields it reads: the
\* new index, the frames drawn, and whether the call underflowed and panicked
handle_tap_on_screen(browser_state, page_idx, x, checks) ==
    IF browser_state.state # "ViewingPage"
    THEN [panic |-> FALSE, underflow |-> FALSE, current_page_idx |-> page_idx, frames |-> <<>>]
    ELSE LET index == IF x < CANVAS_WIDTH \div 3
                      THEN usize_sub(page_idx, 1)
                      ELSE [underflow |-> FALSE, value |-> page_idx + 1]
             page_canvas == get_page(browser_state.page_canvases, index)
         IN IF checks /\ index.underflow
            THEN [panic |-> TRUE, underflow |-> TRUE, current_page_idx |-> page_idx,
                  frames |-> <<>>]
            ELSE IF page_canvas = None
            THEN [panic |-> FALSE, underflow |-> index.underflow,
                  current_page_idx |-> page_idx, frames |-> <<>>]
            ELSE [panic |-> FALSE, underflow |-> FALSE, current_page_idx |-> index.value,
                  frames |-> <<PageView(page_canvas[1])>>]

\* the page canvases of a rendered page of n pages
PageCanvases(n) == [i \in 1..n |-> <<[page |-> i]>>]

\* what a call of the BrowserCore leaves in its state
BrowserOutcomes ==
    {PageError(PageUrl, "error")} \cup {ViewingPage(PageUrl, PageCanvases(n)) : n \in 1..MaxPages}

\* RemarkableApp::new, and run up to the loop: Initialize is the first event
InitRemarkable ==
    /\ user_input = <<Initialize>>
    /\ input_internal = <<>>
    /\ response = NoResponse
    /\ relay_pc = "off"
    /\ exit_requested = FALSE
    /\ sent = 0
    /\ app_pc = "app_rx"
    /\ current_page_idx = 0
    /\ output = <<>>
    /\ overflow_checks \in BOOLEAN
    /\ IdleNest
    /\ IdleLayout
    /\ IdleBrowser /\ IdleRender /\ IdleParse /\ IdleBridge

\* the input thread sends a Tap, the web handlers a Navigate or a Render command
RemarkableSend ==
    /\ app_pc \in {"app_rx", "panic"}
    /\ relay_pc = "off"
    /\ sent < MaxEvents
    /\ sent' = sent + 1
    /\ Len(user_input) < INPUT_INTERNAL_CAPACITY
    /\ \E app_event \in {Tap(0), Tap(CANVAS_WIDTH \div 3), Navigate(PageUrl), RenderCommand(PageUrl)} :
          user_input' = Append(user_input, app_event)
    /\ UNCHANGED <<input_internal, response, relay_pc, exit_requested, app_pc,
                   current_page_idx, output>>
    /\ UNCHANGED <<renderVars, parseVars, bridgeVars, browserVars, buildVars, nestVars, layoutVars>>

\* one turn of the loop of RemarkableApp::run
RemarkableRecv ==
    /\ app_pc = "app_rx"
    /\ user_input # <<>>
    /\ user_input' = Tail(user_input)
    /\ LET event == Head(user_input)
       IN CASE event.event = "Initialize" ->
                   /\ output' = <<PlaceholderView("placeholder-initial-view")>>
                   /\ UNCHANGED <<app_pc, current_page_idx, state, calls>>
            [] event.event = "Tap" ->
                   LET tapped == handle_tap_on_screen(state, current_page_idx, event.x,
                                                      overflow_checks)
                   IN /\ app_pc' = IF tapped.panic THEN "panic" ELSE app_pc
                      /\ current_page_idx' = tapped.current_page_idx
                      /\ output' = tapped.frames
                      /\ UNCHANGED <<state, calls>>
            [] OTHER ->
                   /\ calls < MaxCalls
                   /\ calls' = calls + 1
                   /\ \E outcome \in BrowserOutcomes :
                         /\ state' = outcome
                         /\ IF outcome.state = "ViewingPage"
                            THEN /\ current_page_idx' = 0
                                 /\ output' = <<PlaceholderView("placeholder-loading-view"),
                                                PageView(outcome.page_canvases[1])>>
                            ELSE /\ current_page_idx' = current_page_idx
                                 /\ output' = <<PlaceholderView("placeholder-loading-view"),
                                                PlaceholderView("placeholder-error-view")>>
                   /\ UNCHANGED app_pc
    /\ UNCHANGED <<input_internal, response, relay_pc, exit_requested, sent>>
    /\ UNCHANGED <<browser_pc, page_url, requested>>
    /\ UNCHANGED <<renderVars, parseVars, bridgeVars, buildVars, nestVars, layoutVars>>

NextRemarkable == RemarkableSend \/ RemarkableRecv

SpecRemarkable == InitRemarkable /\ [][NextRemarkable]_vars

----------------------------------------------------------------------------
(* layout.rs: split_runs_into_pages, a step for each turn of its for loop.   *)
(* line_top, line_height and offset are f32 in the code; the model gives them *)
(* small whole values, which f32 holds and adds exactly.                      *)

\* the line heights and the content heights of the calls
LineHeights == {1, 2, 3}

ContentHeights == {2, 4}

\* the layout runs of a buffer whose lines have these heights: each line_top is
\* the bottom of the line before
RECURSIVE LayoutRuns(_)
LayoutRuns(line_heights) ==
    IF line_heights = <<>> THEN <<>>
    ELSE LET before == LayoutRuns(Front(line_heights))
             line_top == IF before = <<>> THEN 0
                         ELSE before[Len(before)].line_top + before[Len(before)].line_height
         IN Append(before, [line_top |-> line_top,
                            line_height |-> line_heights[Len(line_heights)]])

\* the entry of split_runs_into_pages
InitLayout ==
    /\ all_runs \in {LayoutRuns(hs) : hs \in SeqsUpTo(LineHeights, MaxLayoutRuns)}
    /\ content_height \in ContentHeights
    /\ run_idx = 1
    /\ pages = <<>>
    /\ current_page = LayoutPage(<<>>, 0)
    /\ layout_pc = "for"
    /\ overflow_checks \in BOOLEAN
    /\ IdleNest
    /\ IdleRender /\ IdleParse /\ IdleBridge /\ IdleBrowser /\ IdleApp

\* the test on run_bottom
page_is_full(run, page_offset, height) ==
    run.line_top + run.line_height - page_offset > height

\* current_page.runs after the turn of the loop for run
runs_after(page_runs, run, new_page) ==
    Append(IF new_page THEN <<>> ELSE page_runs, run)

\* one turn of the for loop
SplitRun ==
    /\ layout_pc = "for"
    /\ run_idx <= Len(all_runs)
    /\ LET run == all_runs[run_idx]
           new_page == page_is_full(run, current_page.offset, content_height)
       IN IF new_page /\ current_page.runs = <<>>
          THEN /\ layout_pc' = "panic"
               /\ UNCHANGED <<run_idx, pages, current_page>>
          ELSE /\ pages' = IF new_page
                           THEN Append(pages, LayoutPage(current_page.runs,
                                                         current_page.runs[1].line_top))
                           ELSE pages
               /\ current_page' =
                     LayoutPage(runs_after(current_page.runs, run, new_page),
                                IF new_page THEN run.line_top ELSE current_page.offset)
               /\ run_idx' = run_idx + 1
               /\ layout_pc' = layout_pc
    /\ UNCHANGED <<all_runs, content_height>>
    /\ UNCHANGED <<renderVars, parseVars, bridgeVars, browserVars, appVars, buildVars, nestVars>>

\* after the loop: the last page is pushed and pages is returned
ReturnPages ==
    /\ layout_pc = "for"
    /\ run_idx > Len(all_runs)
    /\ pages' = Append(pages, current_page)
    /\ layout_pc' = "done"
    /\ UNCHANGED <<all_runs, content_height, run_idx, current_page>>
    /\ UNCHANGED <<renderVars, parseVars, bridgeVars, browserVars, appVars, buildVars, nestVars>>

NextLayout == SplitRun \/ ReturnPages

SpecLayout == InitLayout /\ [][NextLayout]_vars

----------------------------------------------------------------------------
(* What the claims read *)

\* the pages written so far, the page being filled last
Pages ==
    IF pc = "done" THEN finished_page_canvases
    ELSE Append(finished_page_canvases, current_page_canvas)

\* the RenderedBlock of top-level block i
RenderedOf(i) == render_block(document.blocks[i], screen_margin_x, screen_margin_x)

\* the blocks render_block has returned for
ReturnedBlocks ==
    {i \in 1..Len(document.blocks) :
        \/ i < block_idx
        \/ (i = block_idx /\ pc = "segment")}

Intersects(from1, to1, from2, to2) == from1 < to2 /\ from2 < to1 /\ from1 < to1 /\ from2 < to2

SegmentEnd(rb, k) == IF k < Len(rb.breakpoints) THEN rb.breakpoints[k + 1] ELSE rb.height

\* the row ranges of the pages, in page order and in the order they were written
\* (top to bottom, see RowsWrittenDownwards), empty ranges left out and a range
\* that continues the one before it joined to it
RECURSIVE JoinRanges(_)
JoinRanges(cs) ==
    IF cs = <<>> THEN <<>>
    ELSE LET m == JoinRanges(Front(cs))
             c == cs[Len(cs)]
         IN IF c.from = c.to THEN m
            ELSE IF m # <<>> /\ m[Len(m)].block = c.block /\ m[Len(m)].to = c.from
                 THEN [m EXCEPT ![Len(m)].to = c.to]
                 ELSE Append(m, [block |-> c.block, from |-> c.from, to |-> c.to])

RECURSIVE Concat(_)
Concat(ss) == IF ss = <<>> THEN <<>> ELSE Concat(Front(ss)) \o ss[Len(ss)]

CopiedRows == JoinRanges(Concat(Pages))

\* rows [0, height) of every top-level block, in document order
DocumentRows ==
    JoinRanges([i \in 1..Len(document.blocks) |->
                   [block |-> i, from |-> 0, to |-> RenderedOf(i).height]])

RowsWrittenDownwards ==
    \A p \in 1..Len(Pages) : \A i \in 1..Len(Pages[p]) - 1 :
        Pages[p][i].y + (Pages[p][i].to - Pages[p][i].from) <= Pages[p][i + 1].y

StrictlyAscending(bps) == \A i \in 1..Len(bps) - 1 : bps[i] < bps[i + 1]

----------------------------------------------------------------------------
(* Claims about the pagination engine, checked under Spec *)

\* C1 (pixel conservation): when render_document returns, the rows copied into the
\* pages, page after page and top to bottom, are rows [0, height) of every top-level
\* block in document order, none dropped, duplicated or truncated.
C1_PixelConservation ==
    pc = "done" => RowsWrittenDownwards /\ CopiedRows = DocumentRows

\* C2 (no mid-run cuts): the first rows of every page after the first start at a
\* declared breakpoint of the block they come from, and the rows between two
\* consecutive breakpoints of a block are never on two pages.
C2_NoMidRunCuts ==
    /\ \A p \in 2..Len(Pages) :
          /\ Pages[p] # <<>>
          /\ \E k \in 1..Len(RenderedOf(Pages[p][1].block).breakpoints) :
                RenderedOf(Pages[p][1].block).breakpoints[k] = Pages[p][1].from
    /\ \A p, q \in 1..Len(Pages) : \A i \in 1..Len(Pages[p]) : \A j \in 1..Len(Pages[q]) :
          LET a == Pages[p][i]
              b == Pages[q][j]
              rb == RenderedOf(a.block)
          IN (/\ a.block = b.block
              /\ \E k \in 1..Len(rb.breakpoints) :
                    /\ Intersects(a.from, a.to, rb.breakpoints[k], SegmentEnd(rb, k))
                    /\ Intersects(b.from, b.to, rb.breakpoints[k], SegmentEnd(rb, k)))
             => p = q

\* a page was closed in the middle of a block: its successor starts at a breakpoint
\* other than the block's first
C2_Witness ==
    \E p \in 2..Len(Pages) : Pages[p] # <<>> /\ Pages[p][1].from > 0

\* C3 (greedy page-break rule): a segment closes the current page if and only if
\* page_offset_y + segment_height is strictly greater than CANVAS_HEIGHT -
\* CANVAS_MARGIN_BOTTOM; a segment that ends exactly on the boundary stays.
C3_GreedyPageBreak ==
    [][(pc = "segment" /\ pc' # "panic")
         => ((Len(finished_page_canvases') = Len(finished_page_canvases) + 1)
              <=> (page_offset_y + block_segment_height(rendered_block, breakpoint_idx) > max_y))]_vars

\* C4 (breakpoint invariant): every RenderedBlock render_block returns has a first
\* breakpoint 0, strictly ascending breakpoints, and every breakpoint below its height.
C4_BreakpointInvariant ==
    \A i \in ReturnedBlocks :
        LET rb == RenderedOf(i)
        IN /\ rb.breakpoints # <<>>
           /\ rb.breakpoints[1] = 0
           /\ StrictlyAscending(rb.breakpoints)
           /\ \A k \in 1..Len(rb.breakpoints) : rb.breakpoints[k] < rb.height

\* C5 (document order is page order): of two placed segments the one that comes first
\* in the document (block order, then breakpoint order) is on an earlier page, or on
\* the same page at a strictly smaller y.
C5_DocumentOrder ==
    \A p, q \in 1..Len(Pages) : \A i \in 1..Len(Pages[p]) : \A j \in 1..Len(Pages[q]) :
        LET a == Pages[p][i]
            b == Pages[q][j]
        IN (a.block < b.block \/ (a.block = b.block /\ a.top < b.top))
           => (p < q \/ (p = q /\ a.y < b.y))

\* segments of two blocks on two pages, two of them on the second page
C5_Witness ==
    /\ pc = "done"
    /\ Len(Pages) >= 2
    /\ Len(Pages[2]) >= 2
    /\ Pages[1] # <<>>
    /\ Pages[2][1].block = Pages[1][Len(Pages[1])].block

\* C6 (atomicity): an image and a table cell have one breakpoint, at their own start,
\* and the rows of one image or of one cell are never on two pages.
C6_Atomicity ==
    /\ \A u \in FetchedHrefs \cup {"absent.png"} :
          \/ render_image_block(u, screen_margin_x, screen_margin_x).panic
          \/ render_image_block(u, screen_margin_x, screen_margin_x).breakpoints = <<0>>
    /\ render_table_cell(screen_margin_x, screen_margin_x).breakpoints = <<0>>
    /\ \A b \in ReturnedBlocks :
          LET rb == RenderedOf(b)
          IN \A n \in 1..Len(rb.atoms) :
                /\ Cardinality({k \in 1..Len(rb.breakpoints) :
                                   /\ rb.atoms[n].from <= rb.breakpoints[k]
                                   /\ rb.breakpoints[k] < rb.atoms[n].to}) = 1
                /\ \E k \in 1..Len(rb.breakpoints) : rb.breakpoints[k] = rb.atoms[n].from
                /\ \A p, q \in 1..Len(Pages) : \A i \in 1..Len(Pages[p]) : \A j \in 1..Len(Pages[q]) :
                      (/\ Pages[p][i].block = b
                       /\ Pages[q][j].block = b
                       /\ Intersects(Pages[p][i].from, Pages[p][i].to, rb.atoms[n].from, rb.atoms[n].to)
                       /\ Intersects(Pages[q][j].from, Pages[q][j].to, rb.atoms[n].from, rb.atoms[n].to))
                      => p = q

\* a block of several images or cells was cut: two of them are on different pages
C6_Witness ==
    /\ pc = "done"
    /\ \E b \in 1..Len(document.blocks) :
          /\ Len(RenderedOf(b).atoms) >= 2
          /\ \E p, q \in 1..Len(Pages) : \E i \in 1..Len(Pages[p]) : \E j \in 1..Len(Pages[q]) :
                p # q /\ Pages[p][i].block = b /\ Pages[q][j].block = b

\* C7 (render_document is infallible): no call of render_document panics.
C7_NoPanic == pc # "panic"

\* the top-level children of the tree whose parse fails
FailingChildren == {i \in 1..Len(tree.children) : ~parse_block(tree.children[i]).ok}

\* C8: parse_webpage fails atomically.  When a call made while parsing the page
\* returned a ParseError, at whatever depth, parse_webpage returns that error, the
\* first one, and no Document: a Document is returned only when no call failed.
C8_FailsAtomically ==
    parse_pc = "done" =>
        /\ parse_result.ok <=> "document" \in DOMAIN parse_result
        /\ parse_result.trace # <<>> =>
              /\ ~parse_result.ok
              /\ parse_result.err = parse_result.trace[1]
        /\ FailingChildren # {} =>
              LET first == CHOOSE i \in FailingChildren : \A j \in FailingChildren : i <= j
              IN /\ ~parse_result.ok
                 /\ parse_result.err = parse_block(tree.children[first]).err

\* a parse that failed inside a block quote, after a block that parsed
C8_Witness ==
    /\ parse_pc = "done"
    /\ Len(tree.children) = 2
    /\ parse_block(tree.children[1]).ok
    /\ tree.children[2].kind = "block_quote"
    /\ ~parse_result.ok
    /\ "document" \notin DOMAIN parse_result

StyleOf(kind) == IF kind = "strong_emphasis" THEN "Bold" ELSE "Italic"

\* the tree is one paragraph of one styled element around text, a styled element of
\* the other kind, and text
NestedStyles ==
    /\ Len(tree.children) = 1
    /\ tree.children[1].kind = "paragraph"
    /\ Len(tree.children[1].children) = 1
    /\ LET outer == tree.children[1].children[1]
       IN /\ outer.kind \in StyleKinds
          /\ Len(outer.children) = 3
          /\ outer.children[1] = T
          /\ outer.children[3] = T
          /\ outer.children[2] \in {Node(k, <<T>>) : k \in StyleKinds \ {outer.kind}}

\* C9: merge_styles gives BoldItalic for Bold in Italic and for Italic in Bold, and
\* the new style for every other pair; text in strong inside em and in em inside
\* strong is BoldItalic, and the text after the inner element has the outer style.
C9_StyleMerge ==
    /\ \A parent_style \in SpanStyle, new_style \in SpanStyle :
          merge_styles(parent_style, new_style) =
              IF {parent_style, new_style} = {"Bold", "Italic"}
              THEN "BoldItalic" ELSE new_style
    /\ (parse_pc = "done" /\ NestedStyles) =>
          /\ parse_result.ok
          /\ LET content == parse_result.document.blocks[1].content
                 outer == StyleOf(tree.children[1].children[1].kind)
             IN [i \in 1..Len(content) |-> content[i].style]
                    = <<outer, "BoldItalic", outer>>

\* em inside strong has been parsed
C9_Witness ==
    /\ parse_pc = "done"
    /\ NestedStyles
    /\ tree.children[1].children[1].kind = "strong_emphasis"
    /\ parse_result.ok
    /\ parse_result.document.blocks[1].content[2].style = "BoldItalic"
    /\ parse_result.document.blocks[1].content[3].style = "Bold"

\* every inline child of the paragraph is one the parser accepts on its own
InlineWellFormed(node_paragraph) ==
    \A i \in 1..Len(node_paragraph.children) :
        LET child == node_paragraph.children[i]
        IN IF child.kind = "image" THEN parse_image(Node("paragraph", <<child>>)).ok
           ELSE parse_span(child, "Normal").ok

\* C10: a paragraph is promoted to Block::Image, with the url and the alt text of the
\* image, exactly when it holds exactly one image node and no text node; every other
\* paragraph gives a Block::Paragraph, and the parse does not fail.
C10_ImagePromotion ==
    (/\ parse_pc = "done"
     /\ Len(tree.children) = 1
     /\ tree.children[1].kind = "paragraph"
     /\ InlineWellFormed(tree.children[1])) =>
        LET node_paragraph == tree.children[1]
            image_children == {i \in 1..Len(node_paragraph.children) :
                          node_paragraph.children[i].kind = "image"}
            texts == {i \in 1..Len(node_paragraph.children) :
                          node_paragraph.children[i].kind = "text"}
        IN /\ parse_result.ok
           /\ Len(parse_result.document.blocks) = 1
           /\ IF Cardinality(image_children) = 1 /\ texts = {}
              THEN LET image == node_paragraph.children[CHOOSE i \in image_children : TRUE]
                   IN Some(parse_result.document.blocks[1])
                          = parse_image(Node("paragraph", <<image>>)).val
              ELSE parse_result.document.blocks[1].type = "Paragraph"

----------------------------------------------------------------------------
(* Claims about the handlers of the HTML converter, checked under SpecBridge *)

\* the tr element children of the tbody, and the td element children of the first
TrChildren ==
    {i \in 1..Len(element.children) :
        element.children[i].data = "Element" /\ element.children[i].name = "tr"}

FirstRowTds ==
    IF TrChildren = {} THEN {}
    ELSE LET first_row == element.children[CHOOSE i \in TrChildren :
                                               \A j \in TrChildren : i <= j]
         IN {i \in 1..Len(first_row.children) :
                /\ first_row.children[i].data = "Element"
                /\ first_row.children[i].name = "td"}

\* C11: table_body_handler puts before the content of the tbody a divider row of n
\* columns, "| - " n times and then "|", n being the number of td element children
\* of the first tr element child; with n = 0 it returns the content unchanged.
C11_TableDivider ==
    bridge_pc = "done" =>
        LET n == Cardinality(FirstRowTds)
            content == ElementContent(element)
        IN IF n = 0 THEN markdown = content
           ELSE /\ Len(markdown) = n + 2 + Len(content)
                /\ \A i \in 1..n : markdown[i] = "| - "
                /\ markdown[n + 1] = "|"
                /\ markdown[n + 2] = "\n"
                /\ SubSeq(markdown, n + 3, Len(markdown)) = content

\* a divider of two columns for a tbody whose second row has another number of cells
C11_Witness ==
    /\ bridge_pc = "done"
    /\ Cardinality(FirstRowTds) = 2
    /\ Cardinality(TrChildren) = 2
    /\ Len(element.children[2].children) = 1
    /\ markdown[1] = "| - "
    /\ markdown[3] = "|"

\* no divider for a tbody whose first row holds th cells only
C11_WitnessNoDivider ==
    /\ bridge_pc = "done"
    /\ TrChildren # {}
    /\ FirstRowTds = {}
    /\ markdown = ElementContent(element)
    /\ markdown # <<>>

----------------------------------------------------------------------------
(* Claims about the block renderers, checked under Spec *)

\* the image of the block being rendered is not in the map, or is mapped to None
ImageMissing(url) ==
    \/ resolve_url(webpage_url, url).panic
    \/ resolve_url(webpage_url, url).url \notin DOMAIN images
    \/ images[resolve_url(webpage_url, url).url] = NoImage

\* C13 (missing images degrade, never fail): for an image block whose resolved url
\* is not a key of the images map, or is mapped to None, render_image_block returns
\* the placeholder block (height 300, breakpoints [0]) and does not panic, whatever
\* the url of the image and the url of the page are.
C13_MissingImagesDegrade ==
    (/\ pc \in {"segment", "panic"}
     /\ document.blocks[block_idx].type = "Image"
     /\ ImageMissing(document.blocks[block_idx].url)) =>
        /\ ~rendered_block.panic
        /\ rendered_block.height = PLACEHOLDER_IMAGE_HEIGHT
        /\ rendered_block.breakpoints = <<0>>

\* the placeholder returned for a url that resolves and is not in the map
C13_WitnessPlaceholder ==
    /\ pc = "segment"
    /\ document.blocks[block_idx].type = "Image"
    /\ ~resolve_url(webpage_url, document.blocks[block_idx].url).panic
    /\ ImageMissing(document.blocks[block_idx].url)
    /\ rendered_block.height = PLACEHOLDER_IMAGE_HEIGHT

----------------------------------------------------------------------------
(* Claims about the two fallback arms of the parser, checked under SpecParse *)

\* the kinds parse_span has an arm for, and the kinds parse_block has an arm for
RecognizedInlineKinds ==
    {"text", "link", "strong_emphasis", "emphasis", "code_span", "backslash_escape",
     "hard_line_break"}

RecognizedBlockKinds ==
    {"atx_heading", "paragraph", "tight_list", "loose_list", "block_quote",
     "thematic_break", "fenced_code_block", "html_block", "list_marker", "table"}

\* the inline children of a node that are of no recognized kind; an image is not one
\* of them: a paragraph looks for it before parse_span is called
UnrecognizedInline(parent) ==
    {i \in 1..Len(parent.children) :
        parent.children[i].kind \notin RecognizedInlineKinds \cup {"image"}}

PlaceholderSpan(kind, style) == TextSpan(<<"[TODO: parse node ", kind, "]">>, style)

\* The nodes of a one-block tree whose children are inline nodes, each with the
\* spans it was parsed to (no spans when the parse gave no such block).
ParsedInlineParents ==
    LET node == tree.children[1]
        block == IF parse_result.ok /\ Len(parse_result.document.blocks) = 1
                 THEN parse_result.document.blocks[1]
                 ELSE [type |-> "None"]
    IN CASE node.kind = "paragraph" ->
               {[parent |-> node,
                 spans |-> IF block.type = "Paragraph" THEN Some(block.content) ELSE None]}
         [] node.kind = "atx_heading" /\ Len(node.children) = 2 ->
               {[parent |-> node.children[2],
                 spans |-> IF block.type = "Heading" THEN Some(block.content) ELSE None]}
         [] node.kind = "table" /\ Len(node.children) = 1
                                /\ node.children[1].kind = "table_header_row" ->
               {[parent |-> node.children[1].children[j],
                 spans |-> IF block.type = "Table"
                           THEN Some(block.rows[1].cells[j].content) ELSE None] :
                    j \in 1..Len(node.children[1].children)}
         [] OTHER -> {}

\* the kinds of the nodes at block level (children of the document, of a block quote
\* or of a list item, at any depth) that parse_block has no arm for
RECURSIVE UnrecognizedBlockKinds(_)
UnrecognizedBlockKinds(node) ==
    UNION {LET child == node.children[i]
           IN CASE child.kind \notin RecognizedBlockKinds -> {child.kind}
                [] child.kind = "block_quote" -> UnrecognizedBlockKinds(child)
                [] child.kind \in {"tight_list", "loose_list"} ->
                       UNION {UnrecognizedBlockKinds(child.children[j]) :
                                 j \in {j \in 1..Len(child.children) :
                                           child.children[j].kind = "list_item"}}
                [] OTHER -> {} :
           i \in 1..Len(node.children)}

\* the node without its block-level nodes of unrecognized kinds
RECURSIVE WithoutUnrecognizedBlocks(_)
WithoutUnrecognizedBlocks(node) ==
    [node EXCEPT !.children =
        LET kept == SelectSeq(@, LAMBDA child : child.kind \in RecognizedBlockKinds)
        IN [i \in 1..Len(kept) |->
               CASE kept[i].kind = "block_quote" -> WithoutUnrecognizedBlocks(kept[i])
                 [] kept[i].kind \in {"tight_list", "loose_list"} ->
                        [kept[i] EXCEPT !.children =
                            [j \in 1..Len(@) |->
                                IF @[j].kind = "list_item"
                                THEN WithoutUnrecognizedBlocks(@[j]) ELSE @[j]]]
                 [] OTHER -> kept[i]]]

\* C14 (asymmetric degrade).  An inline node of an unrecognized kind in a paragraph,
\* a heading or a table cell never makes the parse fail: it gives a placeholder Text
\* span with the style of its parent.  A block-level node of an unrecognized kind, at
\* the top level or in a list item or a block quote, always makes parse_webpage fail,
\* with UnexpectedNodeKind of that kind when nothing else in the page fails.
C14_AsymmetricDegrade ==
    (parse_pc = "done" /\ tree # NoTree) =>
        /\ Len(tree.children) = 1 =>
              \A p \in ParsedInlineParents :
                  (UnrecognizedInline(p.parent) # {} /\ InlineWellFormed(p.parent)) =>
                      /\ parse_result.ok
                      /\ p.spans # None
                      /\ \A i \in UnrecognizedInline(p.parent) :
                            \E n \in 1..Len(p.spans[1]) :
                                p.spans[1][n] = PlaceholderSpan(p.parent.children[i].kind, "Normal")
        /\ (/\ Len(tree.children) = 1
            /\ tree.children[1] \in {Node("paragraph", <<Node(k, <<HtmlTag>>)>>) : k \in StyleKinds}) =>
              /\ parse_result.ok
              /\ parse_result.document.blocks[1].content =
                    <<PlaceholderSpan(HtmlTag.kind, StyleOf(tree.children[1].children[1].kind))>>
        /\ UnrecognizedBlockKinds(tree) # {} =>
              /\ ~parse_result.ok
              /\ \/ parse_result.err \in {UnexpectedNodeKind(k) : k \in UnrecognizedBlockKinds(tree)}
                 \/ ~parse_tree(WithoutUnrecognizedBlocks(tree)).ok

\* the placeholder span of an inline node of an unrecognized kind, in a heading
C14_WitnessInline ==
    /\ parse_pc = "done"
    /\ Len(tree.children) = 1
    /\ tree.children[1].kind = "atx_heading"
    /\ parse_result.ok
    /\ \E p \in ParsedInlineParents :
          /\ UnrecognizedInline(p.parent) # {}
          /\ p.spans # None
          /\ p.spans[1][Len(p.spans[1])] = PlaceholderSpan("html_open_tag", "Normal")

\* the failure for a block-level node of an unrecognized kind in a list item
C14_WitnessBlock ==
    /\ parse_pc = "done"
    /\ tree # NoTree
    /\ Len(tree.children) = 1
    /\ UnrecognizedBlockKinds(tree) = {"indented_code_block"}
    /\ parse_result = Err(UnexpectedNodeKind("indented_code_block"))

----------------------------------------------------------------------------
(* Claims about the BrowserCore, checked under SpecBrowser *)

\* C15 (parse failure is the only failure, and it is total).  When parse_webpage
\* returns an error inside do_render, the state becomes PageError with the url of
\* the page and the text of the error; no image has been or is fetched,
\* render_document is not called and there are no page canvases: the state after a
\* failed parse is never ViewingPage.
C15_ParseFailureIsTotal ==
    /\ [](browser_pc = "parse" =>
             /\ requested = <<>>
             /\ pc = "idle"
             /\ finished_page_canvases = <<>>)
    /\ [][(browser_pc = "parse" /\ parse_pc = "done" /\ ~parse_result.ok) =>
             /\ state' = PageError(page_url, parse_error_to_string(parse_result.err))
             /\ browser_pc' = "idle"
             /\ requested' = <<>>
             /\ UNCHANGED renderVars]_vars

\* the second call of the BrowserCore has failed to parse its page, whose url it
\* was given by a render command
C15_Witness ==
    /\ browser_pc = "idle"
    /\ calls >= 2
    /\ page_url = NotAUrl
    /\ state = PageError(NotAUrl, <<"Encountered unexpected node kind: ", "setext_heading">>)
    /\ requested = <<>>
    /\ finished_page_canvases = <<>>

\* the urls of the Image blocks of a Document, those in list items and in block
\* quotes included
RECURSIVE ImageHrefs(_)
ImageHrefs(blocks) ==
    UNION {CASE blocks[i].type = "Image" -> {url_string(blocks[i].url)}
             [] blocks[i].type = "BlockQuote" -> ImageHrefs(blocks[i].content)
             [] blocks[i].type = "List" ->
                    UNION {ImageHrefs(blocks[i].items[j].content) :
                              j \in 1..Len(blocks[i].items)}
             [] OTHER -> {} :
           i \in 1..Len(blocks)}

\* C16 (images are resolved before rendering): when fetch_images has returned and
\* render_document has not been called yet, the images map has a key for the
\* resolved url of every Image block of the Document, at every depth.
C16_ImagesResolvedBeforeRendering ==
    browser_pc = "render" =>
        \A href \in ImageHrefs(parse_result.document.blocks) :
            ~resolve_url(page_url, href).panic =>
                resolve_url(page_url, href).url \in DOMAIN images

\* the images of the top level have their keys, whether they were fetched or not
C16_WitnessTopLevel ==
    /\ browser_pc = "render"
    /\ Len(requested) = 2
    /\ DOMAIN images = {<<PageUrl, "a.jpg">>, <<PageUrl, "b.jpg">>}
    /\ images[<<PageUrl, "a.jpg">>] = NoImage
    /\ images[<<PageUrl, "b.jpg">>] = DecodedImage

----------------------------------------------------------------------------
(* Claims about the Application, checked under SpecApp *)

\* C17 (single-call contract under concurrency): whatever the web server and the
\* backend send and whenever they send it, an event is taken from the channel only
\* when the handling of the event before it has returned, the call of the BrowserCore
\* included; render_document is called only when no call of it is in progress, and
\* the page shown changes only when the BrowserCore is not at work.
C17_SingleCallContract ==
    /\ [][Len(user_input') < Len(user_input) =>
             /\ app_pc = "recv"
             /\ browser_pc = "idle"
             /\ pc = "idle"]_vars
    /\ [][(browser_pc # "rendering" /\ browser_pc' = "rendering") => pc = "idle"]_vars
    /\ [][current_page_idx' # current_page_idx => browser_pc = "idle"]_vars

\* render_document is at work for a Navigate event while a page turn waits in the
\* channel and a command of the web server waits to be relayed
C17_Witness ==
    /\ app_pc = "navigate"
    /\ browser_pc = "rendering"
    /\ pc = "segment"
    /\ user_input # <<>>
    /\ Head(user_input).event \in {"ViewNextPage", "Tap"}
    /\ input_internal # <<>>
    /\ Head(input_internal).event = "Render"

----------------------------------------------------------------------------
(* Claims about the containers and the table, checked under Spec *)

\* the sum of the heights of the rendered children before child i
RECURSIVE HeightBefore(_, _)
HeightBefore(rs, i) == IF i = 1 THEN 0 ELSE HeightBefore(rs, i - 1) + rs[i - 1].height

\* the number of breakpoints of the rendered children before child i
RECURSIVE BreakpointsBefore(_, _)
BreakpointsBefore(rs, i) ==
    IF i = 1 THEN 0 ELSE BreakpointsBefore(rs, i - 1) + Len(rs[i - 1].breakpoints)

\* r is rs stacked: the heights added up, the breakpoints of each child in child
\* order and shifted by the heights of the children before it
Propagated(r, rs) ==
    /\ r.height = HeightBefore(rs, Len(rs) + 1)
    /\ Len(r.breakpoints) = BreakpointsBefore(rs, Len(rs) + 1)
    /\ \A i \in 1..Len(rs) : \A j \in 1..Len(rs[i].breakpoints) :
          r.breakpoints[BreakpointsBefore(rs, i) + j] = HeightBefore(rs, i) + rs[i].breakpoints[j]

\* the children of a BlockQuote or of a ListItem, rendered at the indented margin
RenderedContent(content, margin_left, margin_right) ==
    [i \in 1..Len(content) |->
        render_block(content[i], margin_left + INDENT_MARGIN_LEFT_EMS * font_size, margin_right)]

RenderedListItems(list_items, margin_left, margin_right) ==
    [i \in 1..Len(list_items) |-> render_list_item(list_items[i], margin_left, margin_right)]

\* every container in the block, the block included, that is rendered without a
\* panic is its children stacked
RECURSIVE ContainersPropagate(_, _, _)
ContainersPropagate(block, margin_left, margin_right) ==
    LET r == render_block(block, margin_left, margin_right)
        indented == margin_left + INDENT_MARGIN_LEFT_EMS * font_size
    IN CASE block.type = "BlockQuote" ->
              /\ r.panic \/ Propagated(r, RenderedContent(block.content, margin_left, margin_right))
              /\ \A i \in 1..Len(block.content) :
                    ContainersPropagate(block.content[i], indented, margin_right)
         [] block.type = "List" ->
              /\ r.panic \/ Propagated(r, RenderedListItems(block.items, margin_left, margin_right))
              /\ \A i \in 1..Len(block.items) :
                    LET item == block.items[i]
                        ri == render_list_item(item, margin_left, margin_right)
                    IN /\ ri.panic \/ Propagated(ri, RenderedContent(item.content, margin_left, margin_right))
                       /\ \A k \in 1..Len(item.content) :
                             ContainersPropagate(item.content[k], indented, margin_right)
         [] OTHER -> TRUE

\* C18 (breakpoint propagation for containers): the RenderedBlock of a BlockQuote,
\* of a List and of a ListItem has the sum of the heights of its children as its
\* height, and as its breakpoints the breakpoints of its children in child order,
\* each shifted by the sum of the heights of the children before it.
C18_ContainerBreakpoints ==
    /\ \A b \in 1..Len(document.blocks) :
          ContainersPropagate(document.blocks[b], screen_margin_x, screen_margin_x)
    /\ (pc = "segment" /\ document.blocks[block_idx].type = "BlockQuote") =>
          Propagated(rendered_block,
                     RenderedContent(document.blocks[block_idx].content, screen_margin_x, screen_margin_x))
    /\ (pc = "segment" /\ document.blocks[block_idx].type = "List") =>
          Propagated(rendered_block,
                     RenderedListItems(document.blocks[block_idx].items, screen_margin_x, screen_margin_x))

\* a quote was rendered whose second child is a quote or a list with a breakpoint
\* of its own, shifted by the height of the paragraph above it
C18_Witness ==
    /\ pc = "segment"
    /\ document.blocks[block_idx].type = "BlockQuote"
    /\ Len(document.blocks[block_idx].content) = 2
    /\ document.blocks[block_idx].content[2].type \in {"BlockQuote", "List"}
    /\ LET rs == RenderedContent(document.blocks[block_idx].content, screen_margin_x, screen_margin_x)
       IN /\ rs[1].height > 0
          /\ rs[2].breakpoints # <<>>
          /\ rendered_block.breakpoints[Len(rs[1].breakpoints) + 1] = rs[1].height + rs[2].breakpoints[1]
          /\ rendered_block.height = rs[1].height + rs[2].height

\* the number of cells of the rows before row i
RECURSIVE CellsBefore(_, _)
CellsBefore(rows, i) == IF i = 1 THEN 0 ELSE CellsBefore(rows, i - 1) + rows[i - 1].cells

CellCount(rows) == CellsBefore(rows, Len(rows) + 1)

\* the top-level tables of the document
TableBlocks == {b \in 1..Len(document.blocks) : document.blocks[b].type = "Table"}

\* C19 (table geometry): a table whose rows have c_1..c_r cells is rendered with
\* height 100 * (c_1 + ... + c_r) + 1 and with one breakpoint for each cell, the
\* breakpoint of the k-th cell in row-major order, k from 0, at 100 * k; the bottom
\* border is the last row of the canvas, and that row is in the segment of the last
\* cell, on the page that segment was placed on.
C19_TableGeometry ==
    \A b \in TableBlocks :
        LET rows == document.blocks[b].rows
            r == RenderedOf(b)
            border == bottom_border_y(rows, screen_margin_x, screen_margin_x)
            last == Len(r.breakpoints)
        IN /\ r.height = 100 * CellCount(rows) + 1
           /\ Len(r.breakpoints) = CellCount(rows)
           /\ \A k \in 0..(CellCount(rows) - 1) : r.breakpoints[k + 1] = 100 * k
           /\ border = r.height - 1
           /\ last > 0 =>
                 /\ r.breakpoints[last] <= border
                 /\ border < r.breakpoints[last] + block_segment_height(r, last)
           /\ (b = block_idx /\ pc = "segment") => rendered_block = r
           /\ (b < block_idx /\ last > 0) =>
                 \E p \in 1..Len(Pages) : \E i \in 1..Len(Pages[p]) :
                    /\ Pages[p][i].block = b
                    /\ Pages[p][i].top = r.breakpoints[last]
                    /\ Pages[p][i].from <= border
                    /\ border < Pages[p][i].to

\* a table of two rows of two cells each was placed on the pages, the row of its
\* bottom border with the segment of its fourth cell
C19_Witness ==
    /\ pc = "done"
    /\ \E b \in TableBlocks :
          /\ Len(document.blocks[b].rows) = 2
          /\ CellCount(document.blocks[b].rows) = 4
          /\ RenderedOf(b).height = 401
          /\ RenderedOf(b).breakpoints = <<0, 100, 200, 300>>
          /\ \E p \in 1..Len(Pages) : \E i \in 1..Len(Pages[p]) :
                /\ Pages[p][i].block = b
                /\ Pages[p][i].top = 300
                /\ Pages[p][i].to = 401

----------------------------------------------------------------------------
(* Claims about the margins of nested blocks, checked under SpecNesting *)

\* C20 (margins under nesting): each BlockQuote level and each ListItem level adds
\* INDENT_MARGIN_LEFT_EMS * font_size to margin_left and leaves margin_right as it
\* is, and at every depth the width canvas_width - margin_left - margin_right that
\* render_text_based_block and render_image_block compute is a positive u32: the
\* subtraction does not underflow, neither with a panic nor by wrapping around.
C20_ContentWidthPositive ==
    /\ walk_pc # "off" =>
          /\ settings.margin_left = screen_margin_x + levels * INDENT_MARGIN_LEFT_EMS * font_size
          /\ settings.margin_right = screen_margin_x
    /\ walk_pc # "panic"
    /\ walk_pc \in {"text", "image"} =>
          /\ content_width = u32(CANVAS_WIDTH - settings.margin_left - settings.margin_right)
          /\ CANVAS_WIDTH - settings.margin_left - settings.margin_right > 0

----------------------------------------------------------------------------
(* Claims about the headings of a parsed Document, checked under SpecParse *)

\* the levels of the Heading blocks among the blocks, at every depth
RECURSIVE HeadingLevels(_)
HeadingLevels(blocks) ==
    UNION {LET block == blocks[i]
           IN CASE block.type = "Heading" -> {block.level}
                [] block.type = "BlockQuote" -> HeadingLevels(block.content)
                [] block.type = "List" ->
                       UNION {HeadingLevels(block.items[j].content) : j \in 1..Len(block.items)}
                [] OTHER -> {} :
           i \in 1..Len(blocks)}

\* the heading nodes at the top level of the tree
HeadingChildren == {i \in 1..Len(tree.children) : tree.children[i].kind = "atx_heading"}

\* C21: every Heading of a Document that parse_webpage returned has a level in 1..6,
\* the levels the renderer has an arm for.  A heading node whose first child is none
\* of the six atx markers gives UnexpectedNodeKind, and a heading node with a marker
\* and no content gives no block.
C21_HeadingLevels ==
    (parse_pc = "done" /\ tree # NoTree) =>
        /\ parse_result.ok =>
              /\ HeadingLevels(parse_result.document.blocks) \subseteq 1..6
              /\ \A i \in HeadingChildren :
                    /\ tree.children[i].children # <<>>
                    /\ tree.children[i].children[1].kind \in HeadingMarkers
        /\ \A i \in HeadingChildren :
              LET node == tree.children[i]
              IN /\ node.children = <<>> =>
                       parse_block(node) = Err(UnexpectedNodeKind(node.kind))
                 /\ (node.children # <<>> /\ node.children[1].kind \notin HeadingMarkers) =>
                       parse_block(node) = Err(UnexpectedNodeKind(node.children[1].kind))
                 /\ (Len(node.children) = 1 /\ node.children[1].kind \in HeadingMarkers) =>
                       parse_block(node) = Ok(None)
        /\ (parse_result.ok /\ Len(tree.children) = 1 /\ HeadingChildren = {1}
            /\ Len(tree.children[1].children) = 1) =>
              parse_result.document.blocks = <<>>

\* a Document with a heading of the sixth level was returned
C21_Witness ==
    /\ parse_pc = "done"
    /\ parse_result.ok
    /\ tree.children # <<>>
    /\ tree.children[1].kind = "atx_heading"
    /\ tree.children[1].children # <<>>
    /\ tree.children[1].children[1].kind = "atx_h6_marker"
    /\ parse_result.document.blocks[1].type = "Heading"
    /\ parse_result.document.blocks[1].level = 6

\* a heading with a marker and no content was skipped: the Document has no block
C21_WitnessSkipped ==
    /\ parse_pc = "done"
    /\ parse_result.ok
    /\ Len(tree.children) = 1
    /\ tree.children[1] = Node("atx_heading", <<Leaf("atx_h2_marker", <<"#">>)>>)
    /\ parse_result.document.blocks = <<>>

----------------------------------------------------------------------------
(* Claims about the pages render_document returns, checked under Spec *)

\* the number of segments render_document has placed on the pages
RECURSIVE SegmentCount(_)
SegmentCount(ps) == IF ps = <<>> THEN 0 ELSE Len(Head(ps)) + SegmentCount(Tail(ps))

PlacedSegments == SegmentCount(Pages)

\* C22: render_document returns at least one page for every Document, a Document
\* without blocks and one whose blocks give no segment included, so that the first
\* page the callers take exists.
C22_AtLeastOnePage ==
    pc = "done" =>
        /\ Len(finished_page_canvases) >= 1
        /\ PlacedSegments = 0 => Len(finished_page_canvases) = 1

\* render_document returned for a Document whose only block has no breakpoint
C22_Witness ==
    /\ pc = "done"
    /\ document.blocks # <<>>
    /\ PlacedSegments = 0
    /\ Len(finished_page_canvases) = 1

\* render_document returned for a Document without blocks
C22_WitnessEmpty ==
    /\ pc = "done"
    /\ document.blocks = <<>>
    /\ finished_page_canvases = <<<<>>>>

----------------------------------------------------------------------------
(* Claims about the page shown by the Application, checked under SpecApp *)

\* the body of the loop of Application::run is not between the return of the
\* BrowserCore and the reset of the index
BetweenEvents == app_pc \notin {"off", "navigate", "render"}

\* C23: after any sequence of input events, failed navigations among them, whenever
\* the BrowserCore is in the ViewingPage state the index current_page_idx is the
\* index of one of its pages: 0 <= current_page_idx < page_canvases.len().
C23_PageIndexValid ==
    (BetweenEvents /\ state.state = "ViewingPage") =>
        /\ 0 <= current_page_idx
        /\ current_page_idx < Len(state.page_canvases)

\* the second page of a page was shown and the page loaded after it has one page
C23_Witness ==
    /\ app_pc = "recv"
    /\ state.state = "ViewingPage"
    /\ calls = 2
    /\ Len(state.page_canvases) = 1
    /\ current_page_idx = 0
    /\ sent = 3
    /\ user_input = <<>>
    /\ input_internal = <<>>
    /\ Len(output) = 2

\* the second page of a page of two pages is shown
C23_WitnessSecondPage ==
    /\ app_pc = "recv"
    /\ state.state = "ViewingPage"
    /\ Len(state.page_canvases) = 2
    /\ current_page_idx = 1

----------------------------------------------------------------------------
(* Claims about the page turns of the RemarkableApp, checked under SpecRemarkable *)

\* the loop of RemarkableApp::run takes a Tap from the channel while a page is viewed
TapHandled ==
    /\ app_pc = "app_rx"
    /\ user_input # <<>>
    /\ Head(user_input).event = "Tap"
    /\ user_input' = Tail(user_input)
    /\ state.state = "ViewingPage"

\* C24: a previous-page request while current_page_idx = 0 is ignored: the index
\* stays 0, nothing is drawn, and current_page_idx - 1 is computed without underflow
\* and without panic.  A next-page request on the last page changes nothing.
C24_EdgeTurnsIgnored ==
    [][TapHandled =>
          LET x == Head(user_input).x
              tapped == handle_tap_on_screen(state, current_page_idx, x, overflow_checks)
          IN /\ (x < CANVAS_WIDTH \div 3 /\ current_page_idx = 0) =>
                   /\ ~tapped.underflow
                   /\ app_pc' = "app_rx"
                   /\ current_page_idx' = 0
                   /\ output' = <<>>
             /\ (x >= CANVAS_WIDTH \div 3
                 /\ current_page_idx = Len(state.page_canvases) - 1) =>
                   /\ app_pc' = "app_rx"
                   /\ current_page_idx' = current_page_idx
                   /\ output' = <<>>]_vars

----------------------------------------------------------------------------
(* Claims about the events handled by the Application, checked under SpecApp *)

\* the frames of a Navigate or Render event that has been handled
LoadedFrames == <<PlaceholderView("placeholder-loading-view"), PageView(state.page_canvases[1])>>

FailedFrames ==
    <<PlaceholderView("placeholder-loading-view"), PlaceholderView("placeholder-error-view")>>

\* a Navigate or Render event is being handled
HandlingPageEvent == app_pc \in {"navigate", "render"}

\* C25: every Navigate or Render event emits exactly two frames, the loading
\* placeholder and then page 0 of the new document with current_page_idx reset to 0
\* (ViewingPage) or the error view (PageError); the call of the BrowserCore returns
\* for every event, in ViewingPage or PageError, and no unreachable!() is taken.
C25_TwoFramesPerPageEvent ==
    /\ app_pc # "panic"
    /\ HandlingPageEvent =>
          /\ output = <<PlaceholderView("placeholder-loading-view")>>
          /\ browser_pc # "panic"
          /\ pc # "panic"
          /\ browser_pc = "idle" => state.state \in {"ViewingPage", "PageError"}
    /\ (app_pc = "recv" /\ Len(output) >= 2) =>
          \/ state.state = "ViewingPage" /\ current_page_idx = 0 /\ output = LoadedFrames
          \/ state.state = "PageError" /\ output = FailedFrames

\* the loop of Application::run takes a page-turning event from the channel while
\* the browser is not viewing a page
TurnOutsideViewingPage ==
    /\ ready_to_recv
    /\ user_input # <<>>
    /\ Head(user_input).event \in {"Tap", "ViewPreviousPage", "ViewNextPage"}
    /\ user_input' = Tail(user_input)
    /\ state.state \in {"Initial", "LoadingPage", "PageError"}

\* C26: get_pages is never called while the state is Initial, LoadingPage or
\* PageError: a Tap, ViewPreviousPage or ViewNextPage received in those states leaves
\* current_page_idx and the browser state unchanged, emits no output and does not
\* panic.
C26_TurnsIgnoredOutsideViewingPage ==
    [][TurnOutsideViewingPage =>
          /\ app_pc' = "recv"
          /\ current_page_idx' = current_page_idx
          /\ state' = state
          /\ output' = <<>>]_vars

\* a page turn was received after a page failed to load, and was ignored
C26_Witness ==
    /\ app_pc = "recv"
    /\ state.state = "PageError"
    /\ output = <<>>

\* a page turn was received before any page was asked for, and was ignored
C26_WitnessInitial ==
    /\ app_pc = "recv"
    /\ state.state = "Initial"
    /\ output = <<>>
    /\ sent > 0
    /\ user_input = <<>>
    /\ input_internal = <<>>
    /\ ~exit_requested

----------------------------------------------------------------------------
(* Claims about the page breaks of render_document, checked under Spec *)

\* C27: render_document never emits a blank page: every page pushed to
\* finished_page_canvases holds at least one copied segment, except the single page
\* returned for a document with no segments.
C27_NoBlankPage ==
    \A i \in 1..Len(finished_page_canvases) :
        \/ finished_page_canvases[i] # <<>>
        \/ pc = "done" /\ Len(finished_page_canvases) = 1

\* every segment of every block of the document is shorter than the content area
SegmentsShorterThanContent ==
    \A i \in 1..Len(document.blocks) :
        ~RenderedOf(i).panic =>
            \A k \in 1..Len(RenderedOf(i).breakpoints) :
                /\ block_segment_height(RenderedOf(i), k) >= 0
                /\ block_segment_height(RenderedOf(i), k) < ContentHeight

\* the copy wrote every row of the segment, none skipped by the test on
\* destination_y
NotClipped(copied) == copied.from = copied.top /\ copied.to = copied.bottom

\* C28 (content-area confinement): for a Document whose segments are all shorter
\* than the content height, at every step CANVAS_MARGIN_TOP <= page_offset_y <=
\* CANVAS_HEIGHT - CANVAS_MARGIN_BOTTOM, every copied row lands in
\* [CANVAS_MARGIN_TOP, CANVAS_HEIGHT - CANVAS_MARGIN_BOTTOM), a copy never overwrites
\* rows of an earlier segment of the same page, and no copy is clipped.
C28_ContentAreaConfinement ==
    SegmentsShorterThanContent =>
        /\ CANVAS_MARGIN_TOP <= page_offset_y
        /\ page_offset_y <= CANVAS_HEIGHT - CANVAS_MARGIN_BOTTOM
        /\ \A p \in 1..Len(Pages) : \A i \in 1..Len(Pages[p]) :
              /\ CANVAS_MARGIN_TOP <= Pages[p][i].y
              /\ Pages[p][i].y + (Pages[p][i].bottom - Pages[p][i].top)
                    <= CANVAS_HEIGHT - CANVAS_MARGIN_BOTTOM
              /\ NotClipped(Pages[p][i])
        /\ RowsWrittenDownwards

\* a document of short segments has been rendered to the end, on more than one page
C28_Witness ==
    /\ SegmentsShorterThanContent
    /\ pc = "done"
    /\ Len(finished_page_canvases) >= 2
    /\ \A p \in 1..Len(finished_page_canvases) : finished_page_canvases[p] # <<>>

\* a document of short segments is being placed, two segments on the current page
C28_WitnessSamePage ==
    /\ SegmentsShorterThanContent
    /\ pc = "segment"
    /\ Len(current_page_canvas) >= 2

----------------------------------------------------------------------------
(* Claims about the web server, checked under SpecApp *)

\* handle_render_command has handled a request
RenderRequestHandled ==
    /\ sent' = sent + 1
    /\ user_input' = user_input
    /\ response'.request \in RenderRequests

\* the relay thread has taken an event from the tokio channel while the
\* application is running
Relayed ==
    /\ input_internal # <<>>
    /\ input_internal' = Tail(input_internal)
    /\ app_pc # "exited"

\* C29: handle_render_command enqueues exactly one Render event and answers 200 when
\* the request has an x-skelly-page-url header and a UTF-8 body, and answers 400
\* without enqueuing when the header is missing, the body cannot be read or the body
\* is not UTF-8; the events enqueued reach the application in the order they were
\* enqueued, none lost or duplicated.
C29_RenderCommandHandled ==
    [][/\ RenderRequestHandled =>
             IF response'.request.page_url # "absent" /\ response'.request.body = "utf8"
             THEN /\ response'.status = "200 OK"
                  /\ input_internal' = Append(input_internal, RenderCommand(PageUrl))
             ELSE /\ response'.status = "400 Bad Request"
                  /\ input_internal' = input_internal
       /\ Relayed => user_input' = Append(user_input, Head(input_internal))
       /\ (app_pc = "recv" /\ app_pc' # "recv") => user_input' = Tail(user_input)]_vars

----------------------------------------------------------------------------
(* Claims about split_runs_into_pages, checked under SpecLayout *)

\* the runs of the pages, page after page
RunsOfPages == Concat([i \in 1..Len(pages) |-> pages[i].runs])

\* the bottom of the last run of a page, from the offset of the page
LastRunBottom(page) ==
    page.runs[Len(page.runs)].line_top + page.runs[Len(page.runs)].line_height - page.offset

\* C30: split_runs_into_pages is total and partitions its input: for every run
\* sequence and content_height, an empty sequence and a first run taller than
\* content_height included, it returns without panicking, the runs of the returned
\* pages are the input sequence, and on every page of more than one run the bottom
\* of the last run minus the page offset is <= content_height.
C30_SplitIsTotalPartition ==
    /\ layout_pc # "panic"
    /\ layout_pc = "done" =>
          /\ RunsOfPages = all_runs
          /\ \A i \in 1..Len(pages) :
                Len(pages[i].runs) > 1 => LastRunBottom(pages[i]) <= content_height

====
